---- MODULE Spec2Model ----
(***************************************************************************)
(* Model of the rate-limited batch file-mapping pipeline of                *)
(* pinata-ipfs-scripts-for-nft-projects: the hash / CID processors         *)
(* (RateLimitedFileMappingService.processFiles under a Bottleneck          *)
(* limiter), the per-file upload processor with its existing-CID cache,    *)
(* and the paginated download reconciliation.                              *)
(*                                                                         *)
(* File names and paths are sequences of one-character strings, so that    *)
(* FileUtils.getFileName, String.localeCompare(.., 'en', {numeric: true})  *)
(* and the property order of a JavaScript object are computed, not         *)
(* assumed.  A JavaScript object is a sequence of [k, v] records in the    *)
(* order Object.keys / JSON.stringify enumerate its own properties.        *)
(***************************************************************************)
EXTENDS Integers, Sequences, FiniteSets, TLC

\* ------------------------------------------------------------------ bounds
\* longest file list file discovery returns in the model
MaxFiles == 3
\* largest RateLimitConfig.maxConcurrent tried
MaxConcurrentBound == 2
\* most page requests one reconciliation may issue in the model
MaxPages == 3
\* the clock is followed for six seconds
MaxClock == 6000

\* withRetry is followed for up to four attempts
MaxRetriesBound == 4

\* ------------------------------------------------------- characters, names
Digits == {"0", "1", "2", "3", "4", "5", "6", "7", "8", "9"}

DigitVal(c) ==
  CASE c = "0" -> 0 [] c = "1" -> 1 [] c = "2" -> 2 [] c = "3" -> 3
    [] c = "4" -> 4 [] c = "5" -> 5 [] c = "6" -> 6 [] c = "7" -> 7
    [] c = "8" -> 8 [] c = "9" -> 9

\* line terminators, which `.` of a regular expression does not match
LineTerminators == {"\n"}

\* what String.prototype.trim removes: white space and line terminators
Whitespace == {" "} \cup LineTerminators

\* guards.ts isNonEmptyString: typeof value === 'string' && value.trim().length > 0
isNonEmptyString(s) == \E i \in DOMAIN s : s[i] \notin Whitespace

\* the character class [\\/] of getFileName's regular expression
Separators == {"/", "\\"}

\* /^.*[\\/]/: index of the last separator that no line terminator precedes,
\* where the greedy match from the start of the path ends; 0 when there is
\* no match
LastSeparator(p) ==
  LET S == {i \in DOMAIN p : /\ p[i] \in Separators
                             /\ \A j \in 1..(i - 1) : p[j] \notin LineTerminators}
  IN  IF S = {} THEN 0 ELSE CHOOSE i \in S : \A j \in S : j <= i

\* a getFileName that cuts at the first separator
getFileNameAfterFirst(p) ==
  LET S == {i \in DOMAIN p : p[i] \in Separators}
      k == IF S = {} THEN 0 ELSE CHOOSE i \in S : \A j \in S : i <= j
  IN  IF ~isNonEmptyString(SubSeq(p, k + 1, Len(p))) THEN <<>> ELSE SubSeq(p, k + 1, Len(p))

\* FileUtils.getFileName: filePath.replace(/^.*[\\/]/, ''), '' for a blank
\* path or a blank remainder
getFileName(p) ==
  IF ~isNonEmptyString(p) THEN <<>>
  ELSE LET fileName == SubSeq(p, LastSeparator(p) + 1, Len(p))
       IN  IF ~isNonEmptyString(fileName) THEN <<>> ELSE fileName

\* ------------------------------------------ localeCompare(.., numeric: true)
\* Primary collation weight of a character in the 'en' collation:
\* white space and punctuation sort before digits, digits before letters.
CharWeight(c) ==
  CASE c = " "  -> 1
    [] c = "_"  -> 2
    [] c = "-"  -> 3
    [] c = "."  -> 4
    [] c = "/"  -> 5
    [] c = "\\" -> 6
    [] c \in Digits -> 10
    [] c = "a"  -> 20
    [] c = "b"  -> 21
    [] c = "c"  -> 22
    [] c = "d"  -> 23
    [] c = "e"  -> 24
    [] c = "f"  -> 25
    [] OTHER    -> 30

\* length of the maximal run of digits at the head of s
RECURSIVE DigitRunLen(_)
DigitRunLen(s) ==
  IF s = <<>> \/ Head(s) \notin Digits THEN 0 ELSE 1 + DigitRunLen(Tail(s))

\* numeric value of a sequence of digits
RECURSIVE DigitsValue(_)
DigitsValue(s) ==
  IF s = <<>> THEN 0
  ELSE 10 * DigitsValue(SubSeq(s, 1, Len(s) - 1)) + DigitVal(s[Len(s)])

Sign(n) == IF n < 0 THEN -1 ELSE IF n > 0 THEN 1 ELSE 0

\* a.localeCompare(b, 'en', { numeric: true }): -1, 0 or 1.  Runs of digits
\* compare by numeric value, other characters by collation weight, a proper
\* prefix sorts first.
RECURSIVE localeCompareNumeric(_, _)
localeCompareNumeric(a, b) ==
  IF a = <<>> /\ b = <<>> THEN 0
  ELSE IF a = <<>> THEN -1
  ELSE IF b = <<>> THEN 1
  ELSE IF Head(a) \in Digits /\ Head(b) \in Digits
    THEN LET la == DigitRunLen(a)
             lb == DigitRunLen(b)
             va == DigitsValue(SubSeq(a, 1, la))
             vb == DigitsValue(SubSeq(b, 1, lb))
         IN  IF va # vb THEN Sign(va - vb)
             ELSE localeCompareNumeric(SubSeq(a, la + 1, Len(a)),
                                       SubSeq(b, lb + 1, Len(b)))
    ELSE IF CharWeight(Head(a)) # CharWeight(Head(b))
      THEN Sign(CharWeight(Head(a)) - CharWeight(Head(b)))
      ELSE localeCompareNumeric(Tail(a), Tail(b))

\* ------------------------------------------------------------ optional values
\* undefined / not yet set, and a value that is set
None == <<>>
Some(v) == <<v>>
Val(o) == o[1]

\* --------------------------------------------------------- JavaScript objects
EmptyObject == <<>>

ObjKeys(obj) == [i \in DOMAIN obj |-> obj[i].k]

ObjHas(obj, key) == \E i \in DOMAIN obj : obj[i].k = key

ObjGet(obj, key) == obj[CHOOSE i \in DOMAIN obj : obj[i].k = key].v

\* a canonical array index: the property keys an object enumerates first,
\* in ascending numeric order, whatever the order they were created in
IsArrayIndex(key) ==
  /\ key # <<>>
  /\ \A i \in DOMAIN key : key[i] \in Digits
  /\ (Len(key) = 1 \/ key[1] # "0")

InsertAt(s, i, e) == SubSeq(s, 1, i - 1) \o <<e>> \o SubSeq(s, i, Len(s))

\* obj[key] = val: an existing property keeps its place; a new array-index
\* key goes among the array-index keys by value; any other new key goes last
ObjSet(obj, key, val) ==
  IF ObjHas(obj, key)
    THEN [i \in DOMAIN obj |-> IF obj[i].k = key THEN [k |-> key, v |-> val] ELSE obj[i]]
    ELSE IF IsArrayIndex(key)
      THEN LET after == {i \in DOMAIN obj :
                           \/ ~IsArrayIndex(obj[i].k)
                           \/ DigitsValue(obj[i].k) > DigitsValue(key)}
               pos == IF after = {} THEN Len(obj) + 1
                      ELSE CHOOSE i \in after : \A j \in after : i <= j
           IN  InsertAt(obj, pos, [k |-> key, v |-> val])
      ELSE Append(obj, [k |-> key, v |-> val])

\* Array.prototype.sort with the comparator of sortObjectByKeys: stable
RECURSIVE SortKeysNatural(_)
SortKeysNatural(keys) ==
  IF keys = <<>> THEN <<>>
  ELSE LET init == SortKeysNatural(SubSeq(keys, 1, Len(keys) - 1))
           x == keys[Len(keys)]
           le == {i \in DOMAIN init : localeCompareNumeric(init[i], x) <= 0}
           pos == IF le = {} THEN 1
                  ELSE (CHOOSE i \in le : \A j \in le : j <= i) + 1
       IN  InsertAt(init, pos, x)

\* the reduce of sortObjectByKeys: accumulator[key] = obj[key], key by key
RECURSIVE ReduceInto(_, _, _)
ReduceInto(acc, keys, obj) ==
  IF keys = <<>> THEN acc
  ELSE ReduceInto(ObjSet(acc, Head(keys), ObjGet(obj, Head(keys))), Tail(keys), obj)

\* ObjectUtils.sortObjectByKeys
sortObjectByKeys(obj) == ReduceInto(EmptyObject, SortKeysNatural(ObjKeys(obj)), obj)

\* ------------------------------------------------------------- file system
\* The folders file discovery may find: f1, f2, f10 (the natural-order case),
\* d/f1 (a second file with base name f1, other content), and the
\* extension-less names 2 and 1a.
PathF1  == <<"f", "1">>
PathF2  == <<"f", "2">>
PathF10 == <<"f", "1", "0">>
PathDF1 == <<"d", "/", "f", "1">>
Path2   == <<"2">>
Path1a  == <<"1", "a">>

PathUniverse == {PathF1, PathF2, PathF10, PathDF1, Path2, Path1a}

\* the bytes of each file, fixed across runs
FileContent(p) ==
  CASE p = PathF1  -> "A"
    [] p = PathF2  -> "B"
    [] p = PathF10 -> "C"
    [] p = PathDF1 -> "D"
    [] p = Path2   -> "E"
    [] OTHER       -> "F"

\* the lists FileService.readFiles may return: distinct paths, any order
FileLists ==
  UNION {{s \in [1..n -> PathUniverse] : \A i, j \in 1..n : i # j => s[i] # s[j]}
           : n \in 0..MaxFiles}

\* the digest strategies: NodeCryptoHashStrategy.digest (sha256, hex) and
\* IpfsOnlyHashStrategy.digest, functions of the content bytes alone
Digest(m, content) == IF m = "hash" THEN <<"sha256", content>> ELSE <<"cid", content>>

\* ------------------------------------------------------------------- state
VARIABLES
  mode,           \* the processor running: "hash", "cid", "upload", "download"
  maxConcurrent,  \* RateLimitConfig.maxConcurrent handed to Bottleneck
  minTime,        \* RateLimitConfig.minTime handed to Bottleneck, 0 when not set
  now,            \* the clock, in milliseconds since the batch began
  startTimes,     \* the clock at each job start the limiter made, in order
  files,          \* the file paths discovered, in discovery order
  pc,             \* process(): "start", "awaiting", "resolved", "rejected"
  error,          \* what process() rejected with, None otherwise
  returned,       \* what process() resolved with, None otherwise
  persisted,      \* content of the output file, None while not written
  queue,          \* Bottleneck's queue: indices of jobs scheduled, not started
  st,             \* per job: "queued"; executing: "running", "hit", "uploading"; "done", "failed"
  mapping,        \* processFiles' mapping object, written by the jobs
  firstFailed,    \* index of the first job that rejected, 0 when none
  events,         \* per job: what its processFiles task has done, in order
  run,            \* 1 in the first run of the command, 2 in a second run
  firstOutput,    \* what the first run returned and wrote, None during the first run
  finalPc,        \* processWithFinalHash(): "none" (not called), "awaiting", "resolved", "rejected"
  finalHash,      \* what processWithFinalHash() resolved with, None otherwise
  finalPersisted, \* content of the final hash file, None while not written
  firstFinalHash, \* the final hash of the first run, None during the first run
  outputPath,     \* options.outputPath of process()
  cacheFile,      \* ./output/downloaded-cids.json: an object, None when unreadable
  cacheReads,     \* how many times the upload batch has read the cache file
  outputSaves,    \* how many times the upload batch has called saveJson
  existingCIDs,   \* the cache loaded by loadExistingCIDs
  results,        \* per job: the UploadResult its task resolved with, or None
  settleOrder,    \* the upload jobs that have settled, in the order they settled
  pinCalls,       \* per job: number of pinFileToIPFS calls issued for its file
  pinOutcome,     \* per job: how its pinFileToIPFS call ended: "none", "resolved", "rejected"
  tracker,        \* the batch tracker: [processed, errors, total, progress]
  posts,          \* number of folder upload requests issued
  postOutcome,    \* how the folder upload request ended: "none", "resolved", "rejected"
  invocation,     \* how the download or the folder upload was invoked, with which options
  pinNames,       \* metadata.name of the remote's pins, row by row (repeating)
  pinStatus,      \* the status filter of the download
  totalPins,      \* number of pins of that status the remote holds
  dl,             \* collectPins: "idle", "loop", "requesting", "returned", "rejected"
  pageOffset,     \* collectPins' pageOffset
  pins,           \* collectPins' pins: the pages pushed, each a run of rows [first, last]
  requests,       \* number of pinList requests issued
  pageSizes,      \* number of rows of each response, in order
  filters,        \* the filter of each pinList request, in order
  maxRetries,     \* withRetry's maxRetries
  backoffMs,      \* withRetry's backoffMs
  attempt,        \* withRetry's loop counter
  invocations,    \* how many times withRetry has invoked the operation
  waits,          \* the delays withRetry has waited, in order
  lastError,      \* withRetry's lastError, None while undefined
  retryPc,        \* withRetry: "idle" (not called), "start", "running", "sleeping", "returned", "thrown"
  retryThrown,    \* what withRetry threw, None otherwise
  command,        \* the CLI command run: its name, options and environment
  cmdPc,          \* execute(): "none" (no command), "start", "processing", "exited"
  exitCode        \* the exit code of the process, None while it runs

cfgVars    == <<mode, maxConcurrent, minTime, outputPath, files>>
clockVars  == <<now, startTimes>>
folderVars == <<posts, postOutcome>>
retryVars  == <<maxRetries, backoffMs, attempt, invocations, waits, lastError, retryPc, retryThrown>>
\* the state the batch processors leave alone
commandVars == <<command, cmdPc, exitCode>>
sideVars   == <<retryVars, commandVars>>
outVars    == <<pc, error, returned, persisted>>
hashVars   == <<mapping, firstFailed, events>>
finalVars  == <<finalPc, finalHash, finalPersisted, firstFinalHash>>
rerunVars  == <<run, firstOutput, finalVars>>
cacheVars  == <<cacheFile, cacheReads, outputSaves>>
uploadVars == <<cacheVars, existingCIDs, results, settleOrder, pinCalls, pinOutcome, tracker>>
downloadVars == <<invocation, pinNames, pinStatus, totalPins, dl, pageOffset, pins, requests, pageSizes,
                  filters>>

\* what the hash / CID processors never touch, and what the upload never touches
notHashVars   == <<uploadVars, downloadVars>>
notUploadVars == <<hashVars, rerunVars, downloadVars>>

vars == <<cfgVars, sideVars, clockVars, folderVars, outVars, queue, st, hashVars, rerunVars, uploadVars, downloadVars>>

\* ----------------------------------------------------------- batch tracker
Max(a, b) == IF a > b THEN a ELSE b

\* PerformanceMonitor.trackBatchOperation(name, totalItems, onProgress): the
\* counters of the closure, and the progress lines the callback has logged
trackBatchOperation(totalItems) ==
  [processed |-> 0, errors |-> 0, total |-> totalItems, progress |-> <<>>]

\* no tracker has been created
NoTracker == trackBatchOperation(0)

\* a callback that logs every tenth item, whatever the size of the batch
onProgressEveryTenth(log, processed, total) ==
  IF processed % 10 = 0 THEN Append(log, processed) ELSE log

\* createBatchTracker's onProgress: logs 'Upload progress' when
\* processed % Math.max(1, Math.floor(total / 10)) === 0
onProgress(log, processed, total) ==
  IF processed % Max(1, total \div 10) = 0 THEN Append(log, processed) ELSE log

\* a recordError that counts the error and not the item
recordErrorOnly(t) == [t EXCEPT !.errors = @ + 1]

\* trackBatchOperation: recordSuccess and recordError
recordSuccess(t) ==
  [t EXCEPT !.processed = @ + 1,
            !.progress = onProgress(@, t.processed + 1, t.total)]

recordError(t) ==
  [t EXCEPT !.errors = @ + 1,
            !.processed = @ + 1,
            !.progress = onProgress(@, t.processed + 1, t.total)]

\* no download and no folder upload is running
NoDownload ==
  /\ posts = 0
  /\ postOutcome = "none"
  /\ invocation = [entry |-> "none"]
  /\ pinNames = <<>>
  /\ pinStatus = "all"
  /\ totalPins = 0
  /\ dl = "idle"
  /\ pageOffset = 0
  /\ pins = <<>>
  /\ requests = 0
  /\ pageSizes = <<>>
  /\ filters = <<>>

\* withRetry is not running
RetryIdle ==
  /\ maxRetries = 0
  /\ backoffMs = 0
  /\ attempt = 0
  /\ invocations = 0
  /\ waits = <<>>
  /\ lastError = None
  /\ retryPc = "idle"
  /\ retryThrown = None

\* the processor is driven directly, not through a CLI command
CommandIdle ==
  /\ command = [name |-> "none"]
  /\ cmdPc = "none"
  /\ exitCode = None

SideIdle == RetryIdle /\ CommandIdle

Jobs == DOMAIN files

Running == {i \in Jobs : st[i] \in {"running", "hit", "uploading"}}

\* ``new Bottleneck()`` without the rate limit configuration: no limit
CanDispatchUnlimited == TRUE

\* Bottleneck built from rateLimitConfig starts a queued job only while fewer
\* than maxConcurrent jobs are executing
CanDispatch == Cardinality(Running) < maxConcurrent

\* ``new Bottleneck()`` without the rate limit configuration: no spacing
PacingUnlimited == TRUE

\* Bottleneck built from rateLimitConfig waits minTime after launching a job
\* before launching another one
PacingAllows ==
  IF startTimes = <<>> THEN TRUE ELSE now >= startTimes[Len(startTimes)] + minTime

\* process() is called on its own, not by processWithFinalHash()
NoFinalHash ==
  /\ finalPc = "none"
  /\ finalHash = None
  /\ finalPersisted = None
  /\ firstFinalHash = None

\* no minTime is set and the clock is left out: every step happens at time 0
Untimed ==
  /\ minTime = 0
  /\ now = 0
  /\ startTimes = <<>>

\* no batch processor is running
NoBatch ==
  /\ maxConcurrent = 1
  /\ Untimed
  /\ files = <<>>
  /\ pc = "start"
  /\ error = None
  /\ returned = None
  /\ persisted = None
  /\ queue = <<>>
  /\ st = <<>>
  /\ mapping = EmptyObject
  /\ firstFailed = 0
  /\ events = [i \in DOMAIN files |-> <<>>]
  /\ run = 1
  /\ firstOutput = None
  /\ NoFinalHash
  /\ outputPath = "o"
  /\ cacheFile = None
  /\ cacheReads = 0
  /\ outputSaves = 0
  /\ existingCIDs = EmptyObject
  /\ results = <<>>
  /\ pinCalls = <<>>
  /\ pinOutcome = <<>>
  /\ tracker = NoTracker
  /\ settleOrder = <<>>
  /\ NoDownload

\* process() has been called and file discovery succeeds: always so when the
\* processor is driven directly; under a command, once execute() has passed
\* its own checks and the folder can be read
ProcessCalled ==
  IF cmdPc = "none" THEN TRUE
  ELSE cmdPc = "processing" /\ command.folderReadable

\* ------------------------------------------------ hash and CID processors
Thrown(message) == Some([kind |-> message, file |-> 0])

\* a validation that leaves the output path unchecked
validateOptionsFolderOnly(options) ==
  IF ~isNonEmptyString(options.folderPath) THEN Thrown("Folder path is required")
  ELSE None

\* BaseFileProcessor.validateOptions: the error it throws, None when it passes
validateOptions(options) ==
  IF ~isNonEmptyString(options.folderPath) THEN Thrown("Folder path is required")
  ELSE IF ~isNonEmptyString(options.outputPath) THEN Thrown("Output path is required")
  ELSE None

\* what validateOptions throws on the options process() was called with; a
\* batch whose options are not followed was called with a folder path and an
\* output path that pass
OptionsError ==
  IF invocation.entry = "none" THEN None ELSE validateOptions(invocation)

OptionsValid == OptionsError = None

\* process() of the hash, CID and upload processors: validateOptions throws
\* before the try block is entered
RejectInvalidOptions ==
  /\ mode \in {"hash", "cid", "upload"}
  /\ IF cmdPc = "none" THEN TRUE ELSE cmdPc = "processing"
  /\ pc = "start"
  /\ ~OptionsValid
  /\ error' = OptionsError
  /\ pc' = "rejected"
  /\ UNCHANGED <<cfgVars, sideVars, clockVars, folderVars, returned, persisted, queue, st,
                 hashVars, rerunVars, uploadVars, downloadVars>>

IsDigestMode == mode \in {"hash", "cid"}

InitHash ==
  /\ mode \in {"hash", "cid"}
  /\ SideIdle
  /\ maxConcurrent \in 1..MaxConcurrentBound
  /\ Untimed
  /\ files \in FileLists
  /\ pc = "start"
  /\ error = None
  /\ returned = None
  /\ persisted = None
  /\ queue = <<>>
  /\ st = [i \in DOMAIN files |-> "queued"]
  /\ mapping = EmptyObject
  /\ firstFailed = 0
  /\ events = [i \in DOMAIN files |-> <<>>]
  /\ run = 1
  /\ firstOutput = None
  /\ NoFinalHash
  /\ outputPath = "o"
  /\ cacheFile = None
  /\ cacheReads = 0
  /\ outputSaves = 0
  /\ existingCIDs = EmptyObject
  /\ results = [i \in DOMAIN files |-> None]
  /\ pinCalls = [i \in DOMAIN files |-> 0]
  /\ pinOutcome = [i \in DOMAIN files |-> "none"]
  /\ tracker = NoTracker
  /\ settleOrder = <<>>
  /\ NoDownload

\* an empty folder taken for an error: process() throws instead of returning {}
ReturnEmptyRejects ==
  /\ IsDigestMode
  /\ pc = "start"
  /\ files = <<>>
  /\ pc' = "rejected"
  /\ error' = Some([kind |-> "empty", file |-> 0])
  /\ UNCHANGED <<cfgVars, sideVars, clockVars, folderVars, returned, persisted, queue, st, hashVars, rerunVars, notHashVars>>

\* HashProcessor.process / CIDProcessor.process with no file found: return {}
ReturnEmptyMapping ==
  /\ IsDigestMode
  /\ ProcessCalled
  /\ OptionsValid
  /\ pc = "start"
  /\ files = <<>>
  /\ pc' = "resolved"
  /\ returned' = Some(EmptyObject)
  /\ UNCHANGED <<cfgVars, sideVars, clockVars, folderVars, error, persisted, queue, st, hashVars, rerunVars, notHashVars>>

\* processFiles: files.map(filePath => rateLimiter.schedule(...)) queues one
\* job per file, in input order, and awaits Promise.all of them
ScheduleFiles ==
  /\ IsDigestMode
  /\ ProcessCalled
  /\ OptionsValid
  /\ pc = "start"
  /\ files # <<>>
  /\ queue' = [i \in 1..Len(files) |-> i]
  /\ pc' = "awaiting"
  /\ UNCHANGED <<cfgVars, sideVars, clockVars, folderVars, error, returned, persisted, st, hashVars, rerunVars, notHashVars>>

NoteFailure(i) == IF firstFailed = 0 THEN i ELSE firstFailed

\* the limiter starts the job at the head of its queue; the job reads the
\* file synchronously and awaits computeResult
StartJob(i) ==
  /\ IsDigestMode
  /\ queue # <<>>
  /\ i = Head(queue)
  /\ CanDispatch
  /\ PacingAllows
  /\ startTimes' = Append(startTimes, now)
  /\ queue' = Tail(queue)
  /\ st' = [st EXCEPT ![i] = "running"]
  /\ events' = [events EXCEPT ![i] = <<"started", "read">>]
  /\ UNCHANGED <<cfgVars, sideVars, now, folderVars, outVars, mapping, firstFailed, rerunVars, notHashVars>>

\* the job starts and readFileContent throws: handleProcessingError rethrows
StartJobReadFails(i) ==
  /\ IsDigestMode
  /\ queue # <<>>
  /\ i = Head(queue)
  /\ CanDispatch
  /\ PacingAllows
  /\ startTimes' = Append(startTimes, now)
  /\ queue' = Tail(queue)
  /\ st' = [st EXCEPT ![i] = "failed"]
  /\ firstFailed' = NoteFailure(i)
  /\ events' = [events EXCEPT ![i] = <<"started", "read threw">>]
  /\ UNCHANGED <<cfgVars, sideVars, now, folderVars, outVars, mapping, rerunVars, notHashVars>>

\* a job that keys its result by the whole path
FinishJobKeyedByPath(i) ==
  /\ IsDigestMode
  /\ st[i] = "running"
  /\ mapping' = ObjSet(mapping, files[i], Digest(mode, FileContent(files[i])))
  /\ st' = [st EXCEPT ![i] = "done"]
  /\ events' = [events EXCEPT ![i] = @ \o <<"computed", "written", "completed">>]
  /\ UNCHANGED <<cfgVars, sideVars, clockVars, folderVars, outVars, queue, firstFailed, rerunVars, notHashVars>>

\* a job whose completed hook fires before the mapping is written
FinishJobHookBeforeWrite(i) ==
  /\ IsDigestMode
  /\ st[i] = "running"
  /\ mapping' = ObjSet(mapping, getFileName(files[i]), Digest(mode, FileContent(files[i])))
  /\ st' = [st EXCEPT ![i] = "done"]
  /\ events' = [events EXCEPT ![i] = @ \o <<"computed", "completed", "written">>]
  /\ UNCHANGED <<cfgVars, sideVars, clockVars, folderVars, outVars, queue, firstFailed, rerunVars, notHashVars>>

\* computeResult settles: mapping[fileName] = result
FinishJob(i) ==
  /\ IsDigestMode
  /\ st[i] = "running"
  /\ mapping' = ObjSet(mapping, getFileName(files[i]), Digest(mode, FileContent(files[i])))
  /\ st' = [st EXCEPT ![i] = "done"]
  /\ events' = [events EXCEPT ![i] = @ \o <<"computed", "written", "completed">>]
  /\ UNCHANGED <<cfgVars, sideVars, clockVars, folderVars, outVars, queue, firstFailed, rerunVars, notHashVars>>

\* a catch block that logs and does not rethrow: the job resolves
FailJobSwallowed(i) ==
  /\ IsDigestMode
  /\ st[i] = "running"
  /\ st' = [st EXCEPT ![i] = "done"]
  /\ firstFailed' = NoteFailure(i)
  /\ events' = [events EXCEPT ![i] = Append(@, "compute threw")]
  /\ UNCHANGED <<cfgVars, sideVars, clockVars, folderVars, outVars, queue, mapping, rerunVars, notHashVars>>

\* computeResult rejects: handleProcessingError rethrows, the job rejects
FailJob(i) ==
  /\ IsDigestMode
  /\ st[i] = "running"
  /\ st' = [st EXCEPT ![i] = "failed"]
  /\ firstFailed' = NoteFailure(i)
  /\ events' = [events EXCEPT ![i] = Append(@, "compute threw")]
  /\ UNCHANGED <<cfgVars, sideVars, clockVars, folderVars, outVars, queue, mapping, rerunVars, notHashVars>>

\* Promise.allSettled in place of Promise.all: settled, resolved or not
AllJobsSettled == \A i \in Jobs : st[i] \in {"done", "failed"}

\* Promise.all resolves when every job has resolved
AllJobsResolved == \A i \in Jobs : st[i] = "done"


\* what processFiles returns once every job has resolved
ProcessFilesResult == sortObjectByKeys(mapping)

\* what process() saves and returns: the mapping sorted once more
ProcessResult == sortObjectByKeys(ProcessFilesResult)

\* Promise.all resolves; process() sorts, saves the JSON file and returns
ResolveBatch ==
  /\ IsDigestMode
  /\ pc = "awaiting"
  /\ AllJobsResolved
  /\ persisted' = Some(ProcessResult)
  /\ returned' = Some(ProcessResult)
  /\ pc' = "resolved"
  /\ UNCHANGED <<cfgVars, sideVars, clockVars, folderVars, error, queue, st, hashVars, rerunVars, notHashVars>>

\* Promise.all resolves and saveJson throws: process() rethrows it
ResolveBatchSaveFails ==
  /\ IsDigestMode
  /\ pc = "awaiting"
  /\ AllJobsResolved
  /\ error' = Some([kind |-> "save", file |-> 0])
  /\ pc' = "rejected"
  /\ UNCHANGED <<cfgVars, sideVars, clockVars, folderVars, returned, persisted, queue, st, hashVars, rerunVars, notHashVars>>

\* Promise.all rejects with the first rejection; process() rethrows it
\* (handleError) without reaching saveJson
RejectBatch ==
  /\ IsDigestMode
  /\ pc = "awaiting"
  /\ firstFailed # 0
  /\ error' = Some([kind |-> "file", file |-> firstFailed])
  /\ pc' = "rejected"
  /\ UNCHANGED <<cfgVars, sideVars, clockVars, folderVars, returned, persisted, queue, st, hashVars, rerunVars, notHashVars>>

\* the same command run a second time on the same folder, with a fresh
\* processor and limiter; the output file of the first run is still there
RunAgain ==
  /\ IsDigestMode
  /\ pc = "resolved"
  /\ run = 1
  /\ run' = 2
  /\ firstOutput' = Some([returned |-> returned, persisted |-> persisted])
  /\ pc' = "start"
  /\ returned' = None
  /\ queue' = <<>>
  /\ st' = [i \in DOMAIN files |-> "queued"]
  /\ mapping' = EmptyObject
  /\ firstFailed' = 0
  /\ events' = [i \in DOMAIN files |-> <<>>]
  /\ UNCHANGED <<cfgVars, sideVars, clockVars, folderVars, error, persisted, finalVars, notHashVars>>

NextHash ==
  \/ ReturnEmptyMapping
  \/ ScheduleFiles
  \/ \E i \in Jobs : StartJob(i)
  \/ \E i \in Jobs : StartJobReadFails(i)
  \/ \E i \in Jobs : FinishJob(i)
  \/ \E i \in Jobs : FailJob(i)
  \/ ResolveBatch
  \/ ResolveBatchSaveFails
  \/ RejectBatch

SpecHash == InitHash /\ [][NextHash]_vars

\* two runs of the hash or CID command, one after the other
NextHashTwice == NextHash \/ RunAgain

SpecHashTwice == InitHash /\ [][NextHashTwice]_vars

\* ------------------------------------------------- processWithFinalHash
\* Object.values(hashMapping).join(''): the digests, in the order the object
\* enumerates its keys, one after the other without separator
RECURSIVE JoinValues(_)
JoinValues(obj) == IF obj = <<>> THEN <<>> ELSE Head(obj).v \o JoinValues(Tail(obj))

\* calculateHashOfHashes: computeAggregateHash of the joined digests
calculateHashOfHashes(obj) == Digest("hash", JoinValues(obj))

ListPermutations(s) ==
  {t \in [DOMAIN s -> {s[i] : i \in DOMAIN s}] : \A i, j \in DOMAIN s : i # j => t[i] # t[j]}

\* the hash command run with a final output path: processWithFinalHash is
\* awaiting process()
InitFinalHash ==
  /\ mode = "hash"
  /\ SideIdle
  /\ maxConcurrent \in 1..MaxConcurrentBound
  /\ Untimed
  /\ files \in FileLists
  /\ pc = "start"
  /\ error = None
  /\ returned = None
  /\ persisted = None
  /\ queue = <<>>
  /\ st = [i \in DOMAIN files |-> "queued"]
  /\ mapping = EmptyObject
  /\ firstFailed = 0
  /\ events = [i \in DOMAIN files |-> <<>>]
  /\ run = 1
  /\ firstOutput = None
  /\ finalPc = "awaiting"
  /\ finalHash = None
  /\ finalPersisted = None
  /\ firstFinalHash = None
  /\ outputPath = "o"
  /\ cacheFile = None
  /\ cacheReads = 0
  /\ outputSaves = 0
  /\ existingCIDs = EmptyObject
  /\ results = [i \in DOMAIN files |-> None]
  /\ pinCalls = [i \in DOMAIN files |-> 0]
  /\ pinOutcome = [i \in DOMAIN files |-> "none"]
  /\ tracker = NoTracker
  /\ settleOrder = <<>>
  /\ NoDownload

\* a final hash that is neither computed nor saved when the mapping is empty
ResolveFinalHashSkipsEmpty ==
  /\ finalPc = "awaiting"
  /\ pc = "resolved"
  /\ IF Val(returned) = EmptyObject
       THEN /\ finalHash' = Some(<<>>)
            /\ UNCHANGED finalPersisted
       ELSE /\ finalHash' = Some(calculateHashOfHashes(Val(returned)))
            /\ finalPersisted' = Some(calculateHashOfHashes(Val(returned)))
  /\ finalPc' = "resolved"
  /\ UNCHANGED <<cfgVars, sideVars, clockVars, folderVars, outVars, queue, st, hashVars, run, firstOutput,
                 firstFinalHash, notHashVars>>

\* process() resolved: the hash of the hashes is computed, saved and returned
ResolveFinalHash ==
  /\ finalPc = "awaiting"
  /\ pc = "resolved"
  /\ finalHash' = Some(calculateHashOfHashes(Val(returned)))
  /\ finalPersisted' = Some(calculateHashOfHashes(Val(returned)))
  /\ finalPc' = "resolved"
  /\ UNCHANGED <<cfgVars, sideVars, clockVars, folderVars, outVars, queue, st, hashVars, run, firstOutput,
                 firstFinalHash, notHashVars>>

\* process() resolved and saveJson of the final hash throws
ResolveFinalHashSaveFails ==
  /\ finalPc = "awaiting"
  /\ pc = "resolved"
  /\ finalPc' = "rejected"
  /\ UNCHANGED <<cfgVars, sideVars, clockVars, folderVars, outVars, queue, st, hashVars, run, firstOutput,
                 finalHash, finalPersisted, firstFinalHash, notHashVars>>

\* process() rejected: so does processWithFinalHash
RejectFinalHash ==
  /\ finalPc = "awaiting"
  /\ pc = "rejected"
  /\ finalPc' = "rejected"
  /\ UNCHANGED <<cfgVars, sideVars, clockVars, folderVars, outVars, queue, st, hashVars, run, firstOutput,
                 finalHash, finalPersisted, firstFinalHash, notHashVars>>

\* a second processWithFinalHash over the same files, listed in another order
RunAgainPermuted ==
  /\ mode = "hash"
  /\ finalPc = "resolved"
  /\ run = 1
  /\ run' = 2
  /\ files' \in ListPermutations(files)
  /\ firstOutput' = Some([returned |-> returned, persisted |-> persisted])
  /\ firstFinalHash' = finalHash
  /\ finalPc' = "awaiting"
  /\ finalHash' = None
  /\ pc' = "start"
  /\ returned' = None
  /\ queue' = <<>>
  /\ st' = [i \in DOMAIN files |-> "queued"]
  /\ mapping' = EmptyObject
  /\ firstFailed' = 0
  /\ events' = [i \in DOMAIN files |-> <<>>]
  /\ UNCHANGED <<mode, maxConcurrent, minTime, outputPath, sideVars, clockVars, folderVars, error, persisted,
                 finalPersisted, notHashVars>>

NextFinalHash ==
  \/ NextHash
  \/ ResolveFinalHash
  \/ ResolveFinalHashSaveFails
  \/ RejectFinalHash
  \/ RunAgainPermuted

SpecFinalHash == InitFinalHash /\ [][NextFinalHash]_vars

\* -------------------------------------------------------- upload processor
\* the folders an upload may find: f1, f2, f10 and d/f1 (base name f1 again)
UploadPathUniverse == {PathF1, PathF2, PathF10, PathDF1}

UploadFileLists ==
  UNION {{s \in [1..n -> UploadPathUniverse] : \A i, j \in 1..n : i # j => s[i] # s[j]}
           : n \in 0..MaxFiles}

\* reading a property the object does not have
Undefined == "<undefined>"

\* guards.ts isTruthy: Boolean(value), for a string or undefined
isTruthy(v) == v \notin {"", Undefined}

ObjLookup(obj, key) == IF ObjHas(obj, key) THEN ObjGet(obj, key) ELSE Undefined

\* contents ./output/downloaded-cids.json may have: f1 pinned; f1 pinned and
\* f2 listed with an empty CID; f1 and f2 pinned.  None: the file is absent
\* or unreadable.
CacheF1        == ObjSet(EmptyObject, PathF1, "QmOld1")
CacheF1F2Empty == ObjSet(CacheF1, PathF2, "")
CacheF1F2      == ObjSet(CacheF1, PathF2, "QmOld2")

CacheFiles == {None, Some(CacheF1), Some(CacheF1F2Empty), Some(CacheF1F2)}

\* the file loadExistingCIDs reads
CachePath == "./output/downloaded-cids.json"

\* the output paths an upload is run with: any other file, or the cache file
UploadOutputPaths == {"o", CachePath}

\* FileUploadProcessor.loadExistingCIDs: {} when readJson throws
loadExistingCIDs == IF cacheFile = None THEN EmptyObject ELSE Val(cacheFile)

\* PinataService.checkFileExists
checkFileExists(fileName, cids) ==
  [exists |-> isTruthy(ObjLookup(cids, fileName)), ipfsHash |-> ObjLookup(cids, fileName)]

\* a dedup check on the presence of the key alone (fileName in existingCIDs)
IsCacheHitKeyPresent(fileName, cids) == ObjHas(cids, fileName)

\* processFileUpload: if (exists && ipfsHash)
IsCacheHit(fileName, cids) ==
  LET check == checkFileExists(fileName, cids)
  IN  check.exists /\ isTruthy(check.ipfsHash)

\* response.IpfsHash of a successful pinFileToIPFS: the CID of the content
IpfsHashOf(content) ==
  CASE content = "A" -> "QmA"
    [] content = "B" -> "QmB"
    [] content = "C" -> "QmC"
    [] content = "D" -> "QmD"
    [] OTHER         -> "QmE"

\* what a failing pinFileToIPFS rejects with: an Error, or the error payload
\* of the API's response, a string or an object
ThrownValues ==
  {[type |-> "Error", message |-> "ETIMEDOUT"],
   [type |-> "string", message |-> "Too Many Requests"],
   [type |-> "object", message |-> Undefined]}

\* ErrorHandler.normalizeError(error).message
normalizedMessage(thrown) ==
  IF thrown.type = "Error" THEN thrown.message
  ELSE IF thrown.type = "string" THEN thrown.message
  ELSE "Unknown error occurred"

UploadSucceeded(fileName, cid) ==
  [fileName |-> fileName, cid |-> cid, success |-> TRUE, error |-> Undefined]

\* handleTrackedException: the result the tracking wrapper builds from what
\* processFileUpload threw; error is error.message for an Error and
\* String(error) for anything else
handleTrackedException(fileName, thrown) ==
  [fileName |-> fileName,
   cid |-> "",
   success |-> FALSE,
   error |-> IF thrown.type \in {"Error", "string"} THEN thrown.message
             ELSE "[object Object]"]

\* a failed result that carries no message
UploadFailedSilently(fileName, message) ==
  [fileName |-> fileName, cid |-> "", success |-> FALSE, error |-> Undefined]

UploadFailed(fileName, message) ==
  [fileName |-> fileName, cid |-> "", success |-> FALSE, error |-> message]

InitUpload ==
  /\ mode = "upload"
  /\ SideIdle
  /\ maxConcurrent \in 1..MaxConcurrentBound
  /\ Untimed
  /\ files \in UploadFileLists
  /\ pc = "start"
  /\ error = None
  /\ returned = None
  /\ persisted = None
  /\ queue = <<>>
  /\ st = [i \in DOMAIN files |-> "queued"]
  /\ mapping = EmptyObject
  /\ firstFailed = 0
  /\ events = [i \in DOMAIN files |-> <<>>]
  /\ run = 1
  /\ firstOutput = None
  /\ NoFinalHash
  /\ outputPath \in UploadOutputPaths
  /\ cacheFile \in CacheFiles
  /\ cacheReads = 0
  /\ outputSaves = 0
  /\ existingCIDs = EmptyObject
  /\ results = [i \in DOMAIN files |-> None]
  /\ pinCalls = [i \in DOMAIN files |-> 0]
  /\ pinOutcome = [i \in DOMAIN files |-> "none"]
  /\ tracker = NoTracker
  /\ settleOrder = <<>>
  /\ NoDownload

\* process(): the cache is loaded, no file is found: return []
UploadReturnEmpty ==
  /\ mode = "upload"
  /\ pc = "start"
  /\ ProcessCalled
  /\ OptionsValid
  /\ files = <<>>
  /\ existingCIDs' = loadExistingCIDs
  /\ pc' = "resolved"
  /\ returned' = Some(<<>>)
  /\ cacheReads' = cacheReads + 1
  /\ UNCHANGED <<cfgVars, sideVars, clockVars, folderVars, error, persisted, queue, st, cacheFile, outputSaves, results, settleOrder,
                 pinCalls, pinOutcome, tracker, notUploadVars>>

\* a batch that needs its cache: process() throws when the cache file
\* cannot be read
ScheduleUploadsCacheRequired ==
  /\ mode = "upload"
  /\ pc = "start"
  /\ ProcessCalled
  /\ OptionsValid
  /\ files # <<>>
  /\ IF cacheFile = None
       THEN /\ pc' = "rejected"
            /\ error' = Some([kind |-> "cache", file |-> 0])
            /\ UNCHANGED <<existingCIDs, queue>>
       ELSE /\ existingCIDs' = loadExistingCIDs
            /\ queue' = [i \in 1..Len(files) |-> i]
            /\ pc' = "awaiting"
            /\ UNCHANGED error
  /\ cacheReads' = cacheReads + 1
  /\ tracker' = trackBatchOperation(Len(files))
  /\ UNCHANGED <<cfgVars, sideVars, clockVars, folderVars, returned, persisted, st, cacheFile, outputSaves, results, settleOrder,
                 pinCalls, pinOutcome, notUploadVars>>

\* process(): the cache is loaded, then executeUploads schedules one job per
\* file on the limiter, in input order, and awaits Promise.all of them
ScheduleUploads ==
  /\ mode = "upload"
  /\ pc = "start"
  /\ ProcessCalled
  /\ OptionsValid
  /\ files # <<>>
  /\ existingCIDs' = loadExistingCIDs
  /\ queue' = [i \in 1..Len(files) |-> i]
  /\ pc' = "awaiting"
  /\ cacheReads' = cacheReads + 1
  /\ tracker' = trackBatchOperation(Len(files))
  /\ UNCHANGED <<cfgVars, sideVars, clockVars, folderVars, error, returned, persisted, st, cacheFile, outputSaves, results, settleOrder,
                 pinCalls, pinOutcome, notUploadVars>>

\* a dedup check made ahead of the limiter: the task of a cached file starts
\* as soon as it is reached, whatever the limiter is doing
StartUploadCachedAheadOfLimiter(i) ==
  /\ mode = "upload"
  /\ queue # <<>>
  /\ i = Head(queue)
  /\ startTimes' = Append(startTimes, now)
  /\ IsCacheHit(getFileName(files[i]), existingCIDs)
  /\ queue' = Tail(queue)
  /\ st' = [st EXCEPT ![i] = "hit"]
  /\ UNCHANGED <<cfgVars, sideVars, now, folderVars, outVars, uploadVars, notUploadVars>>

\* the limiter starts the head job; processFileUpload finds the file in the
\* cache and returns the cached CID
StartUploadCached(i) ==
  /\ mode = "upload"
  /\ queue # <<>>
  /\ i = Head(queue)
  /\ CanDispatch
  /\ PacingAllows
  /\ startTimes' = Append(startTimes, now)
  /\ IsCacheHit(getFileName(files[i]), existingCIDs)
  /\ queue' = Tail(queue)
  /\ st' = [st EXCEPT ![i] = "hit"]
  /\ UNCHANGED <<cfgVars, sideVars, now, folderVars, outVars, uploadVars, notUploadVars>>

\* a job that calls uploadFile whatever the cache holds
StartUploadPinUnchecked(i) ==
  /\ mode = "upload"
  /\ queue # <<>>
  /\ i = Head(queue)
  /\ CanDispatch
  /\ PacingAllows
  /\ startTimes' = Append(startTimes, now)
  /\ queue' = Tail(queue)
  /\ st' = [st EXCEPT ![i] = "uploading"]
  /\ pinCalls' = [pinCalls EXCEPT ![i] = @ + 1]
  /\ UNCHANGED <<cfgVars, sideVars, now, folderVars, outVars, cacheVars, existingCIDs, results, settleOrder, pinOutcome,
                 tracker, notUploadVars>>

\* the limiter starts the head job; the file is not cached and
\* pinataService.uploadFile calls pinFileToIPFS
StartUploadPin(i) ==
  /\ mode = "upload"
  /\ queue # <<>>
  /\ i = Head(queue)
  /\ CanDispatch
  /\ PacingAllows
  /\ startTimes' = Append(startTimes, now)
  /\ ~IsCacheHit(getFileName(files[i]), existingCIDs)
  /\ queue' = Tail(queue)
  /\ st' = [st EXCEPT ![i] = "uploading"]
  /\ pinCalls' = [pinCalls EXCEPT ![i] = @ + 1]
  /\ UNCHANGED <<cfgVars, sideVars, now, folderVars, outVars, cacheVars, existingCIDs, results, settleOrder, pinOutcome,
                 tracker, notUploadVars>>

\* the job of a cached file resolves: handleTrackedResult records a success
SettleCached(i) ==
  /\ mode = "upload"
  /\ st[i] = "hit"
  /\ results' = [results EXCEPT ![i] =
       Some(UploadSucceeded(getFileName(files[i]),
                            checkFileExists(getFileName(files[i]), existingCIDs).ipfsHash))]
  /\ settleOrder' = Append(settleOrder, i)
  /\ tracker' = recordSuccess(tracker)
  /\ st' = [st EXCEPT ![i] = "done"]
  /\ UNCHANGED <<cfgVars, sideVars, clockVars, folderVars, outVars, queue, cacheVars, existingCIDs, pinCalls,
                 pinOutcome, notUploadVars>>

\* a batch that remembers what it uploads: the CID of a pinned file is added
\* to the cache the later tasks look into
PinResolvesRemembersCid(i) ==
  /\ mode = "upload"
  /\ st[i] = "uploading"
  /\ pinOutcome' = [pinOutcome EXCEPT ![i] = "resolved"]
  /\ results' = [results EXCEPT ![i] =
       Some(UploadSucceeded(getFileName(files[i]), IpfsHashOf(FileContent(files[i]))))]
  /\ existingCIDs' = ObjSet(existingCIDs, getFileName(files[i]), IpfsHashOf(FileContent(files[i])))
  /\ settleOrder' = Append(settleOrder, i)
  /\ tracker' = recordSuccess(tracker)
  /\ st' = [st EXCEPT ![i] = "done"]
  /\ UNCHANGED <<cfgVars, sideVars, clockVars, folderVars, outVars, queue, cacheVars, pinCalls,
                 notUploadVars>>

\* pinFileToIPFS resolves: the job resolves with the remote CID
PinResolves(i) ==
  /\ mode = "upload"
  /\ st[i] = "uploading"
  /\ pinOutcome' = [pinOutcome EXCEPT ![i] = "resolved"]
  /\ results' = [results EXCEPT ![i] =
       Some(UploadSucceeded(getFileName(files[i]), IpfsHashOf(FileContent(files[i]))))]
  /\ settleOrder' = Append(settleOrder, i)
  /\ tracker' = recordSuccess(tracker)
  /\ st' = [st EXCEPT ![i] = "done"]
  /\ UNCHANGED <<cfgVars, sideVars, clockVars, folderVars, outVars, queue, cacheVars, existingCIDs, pinCalls,
                 notUploadVars>>

\* a catch block that rethrows: the job rejects and with it Promise.all and
\* process()
PinRejectsAborts(i, thrown) ==
  /\ mode = "upload"
  /\ st[i] = "uploading"
  /\ thrown \in ThrownValues
  /\ pinOutcome' = [pinOutcome EXCEPT ![i] = "rejected"]
  /\ st' = [st EXCEPT ![i] = "failed"]
  /\ pc' = "rejected"
  /\ error' = Some([kind |-> "file", file |-> i])
  /\ UNCHANGED <<cfgVars, sideVars, clockVars, folderVars, returned, persisted, queue, cacheVars, existingCIDs,
                 results, settleOrder, pinCalls, tracker, notUploadVars>>

\* a catch block that calls uploadFile again instead of giving up
PinRejectsRetries(i, thrown) ==
  /\ mode = "upload"
  /\ st[i] = "uploading"
  /\ thrown \in ThrownValues
  /\ pinCalls[i] < 3
  /\ pinOutcome' = [pinOutcome EXCEPT ![i] = "rejected"]
  /\ pinCalls' = [pinCalls EXCEPT ![i] = @ + 1]
  /\ UNCHANGED <<cfgVars, sideVars, clockVars, folderVars, outVars, queue, st, cacheVars, existingCIDs, results, settleOrder,
                 tracker, notUploadVars>>

\* pinFileToIPFS rejects: uploadFile rethrows, processFileUpload catches and
\* returns a failed result, handleTrackedResult records an error
PinRejects(i, thrown) ==
  /\ mode = "upload"
  /\ st[i] = "uploading"
  /\ thrown \in ThrownValues
  /\ pinOutcome' = [pinOutcome EXCEPT ![i] = "rejected"]
  /\ results' = [results EXCEPT ![i] =
       Some(UploadFailed(getFileName(files[i]), normalizedMessage(thrown)))]
  /\ settleOrder' = Append(settleOrder, i)
  /\ tracker' = recordError(tracker)
  /\ st' = [st EXCEPT ![i] = "done"]
  /\ UNCHANGED <<cfgVars, sideVars, clockVars, folderVars, outVars, queue, cacheVars, existingCIDs, pinCalls,
                 notUploadVars>>

\* an array filled as the tasks settle: the k-th result is that of the k-th
\* task to settle
ResultArrayByCompletion == [k \in DOMAIN files |-> Val(results[settleOrder[k]])]

\* the array Promise.all(tasks) resolves with: one result per job, in input order
ResultArray == [i \in DOMAIN files |-> Val(results[i])]

\* the reduce of persistSuccessfulUploads
RECURSIVE ReduceSuccessful(_, _)
ReduceSuccessful(acc, rs) ==
  IF rs = <<>> THEN acc
  ELSE ReduceSuccessful(
         IF Head(rs).success /\ isTruthy(Head(rs).cid)
           THEN ObjSet(acc, Head(rs).fileName, Head(rs).cid)
           ELSE acc,
         Tail(rs))

\* a reduce that keeps the first CID seen for a name
RECURSIVE ReduceSuccessfulKeepFirst(_, _)
ReduceSuccessfulKeepFirst(acc, rs) ==
  IF rs = <<>> THEN acc
  ELSE ReduceSuccessfulKeepFirst(
         IF Head(rs).success /\ isTruthy(Head(rs).cid) /\ ~ObjHas(acc, Head(rs).fileName)
           THEN ObjSet(acc, Head(rs).fileName, Head(rs).cid)
           ELSE acc,
         Tail(rs))

successfulUploadsKeepFirst(rs) == ReduceSuccessfulKeepFirst(EmptyObject, rs)

\* persistSuccessfulUploads: the mapping handed to saveJson
successfulUploads(rs) == ReduceSuccessful(EmptyObject, rs)

\* a batch that saves the mapping only when there is something in it
ResolveUploadsSkipsEmpty ==
  /\ mode = "upload"
  /\ pc = "awaiting"
  /\ AllJobsResolved
  /\ IF successfulUploads(ResultArray) = EmptyObject
       THEN UNCHANGED <<outputSaves, persisted, cacheFile>>
       ELSE /\ outputSaves' = outputSaves + 1
            /\ persisted' = Some(successfulUploads(ResultArray))
            /\ cacheFile' = IF outputPath = CachePath
                              THEN Some(successfulUploads(ResultArray)) ELSE cacheFile
  /\ returned' = Some(ResultArray)
  /\ pc' = "resolved"
  /\ UNCHANGED <<cfgVars, sideVars, clockVars, folderVars, error, queue, st, cacheReads, existingCIDs, results, settleOrder,
                 pinCalls, pinOutcome, tracker, notUploadVars>>

\* Promise.all resolves; the successful uploads are saved, the array returned
ResolveUploads ==
  /\ mode = "upload"
  /\ pc = "awaiting"
  /\ AllJobsResolved
  /\ outputSaves' = outputSaves + 1
  /\ persisted' = Some(successfulUploads(ResultArray))
  /\ cacheFile' = IF outputPath = CachePath THEN Some(successfulUploads(ResultArray)) ELSE cacheFile
  /\ returned' = Some(ResultArray)
  /\ pc' = "resolved"
  /\ UNCHANGED <<cfgVars, sideVars, clockVars, folderVars, error, queue, st, cacheReads, existingCIDs, results, settleOrder,
                 pinCalls, pinOutcome, tracker, notUploadVars>>

\* Promise.all resolves and saveJson throws: process() throws the normalized error
ResolveUploadsSaveFails ==
  /\ mode = "upload"
  /\ pc = "awaiting"
  /\ AllJobsResolved
  /\ outputSaves' = outputSaves + 1
  /\ error' = Some([kind |-> "save", file |-> 0])
  /\ pc' = "rejected"
  /\ UNCHANGED <<cfgVars, sideVars, clockVars, folderVars, returned, persisted, queue, st, cacheFile, cacheReads,
                 existingCIDs, results, settleOrder, pinCalls, pinOutcome, tracker, notUploadVars>>

NextUpload ==
  \/ UploadReturnEmpty
  \/ ScheduleUploads
  \/ \E i \in Jobs : StartUploadCached(i)
  \/ \E i \in Jobs : StartUploadPin(i)
  \/ \E i \in Jobs : SettleCached(i)
  \/ \E i \in Jobs : PinResolves(i)
  \/ \E i \in Jobs : \E thrown \in ThrownValues : PinRejects(i, thrown)
  \/ ResolveUploads
  \/ ResolveUploadsSaveFails

SpecUpload == InitUpload /\ [][NextUpload]_vars

\* ----------------------------------------------------- upload, with the clock
Min(a, b) == IF a < b THEN a ELSE b

\* FileUploadProcessor's default rate limit
DefaultUploadRateLimit == [maxConcurrent |-> 1, minTime |-> 3000]

RateLimitConfigs ==
  {DefaultUploadRateLimit} \cup
  {[maxConcurrent |-> c, minTime |-> 1000] : c \in 1..MaxConcurrentBound}

\* the folders followed on the clock: f1; f1, f2; f1, f2, f10; ...
PacingFileLists ==
  {SubSeq(<<PathF1, PathF2, PathF10, PathDF1>>, 1, n) : n \in 0..Min(MaxFiles, 4)}

\* the clock advances in steps of one or three seconds
TickSteps == {1000, 3000}

\* an upload batch whose limiter has a minTime, followed on the clock
InitPacing ==
  /\ mode = "upload"
  /\ SideIdle
  /\ \E config \in RateLimitConfigs :
       /\ maxConcurrent = config.maxConcurrent
       /\ minTime = config.minTime
  /\ now = 0
  /\ startTimes = <<>>
  /\ files \in PacingFileLists
  /\ pc = "start"
  /\ error = None
  /\ returned = None
  /\ persisted = None
  /\ queue = <<>>
  /\ st = [i \in DOMAIN files |-> "queued"]
  /\ mapping = EmptyObject
  /\ firstFailed = 0
  /\ events = [i \in DOMAIN files |-> <<>>]
  /\ run = 1
  /\ firstOutput = None
  /\ NoFinalHash
  /\ outputPath = "o"
  /\ cacheFile \in {None, Some(CacheF1), Some(CacheF1F2)}
  /\ cacheReads = 0
  /\ outputSaves = 0
  /\ existingCIDs = EmptyObject
  /\ results = [i \in DOMAIN files |-> None]
  /\ pinCalls = [i \in DOMAIN files |-> 0]
  /\ pinOutcome = [i \in DOMAIN files |-> "none"]
  /\ tracker = NoTracker
  /\ settleOrder = <<>>
  /\ NoDownload

\* time passes while the batch is awaited
Tick(d) ==
  /\ pc = "awaiting"
  /\ now + d <= MaxClock
  /\ now' = now + d
  /\ UNCHANGED <<cfgVars, sideVars, startTimes, folderVars, outVars, queue, st, hashVars, rerunVars,
                 uploadVars, downloadVars>>

NextPacing ==
  \/ NextUpload
  \/ \E d \in TickSteps : Tick(d)

SpecPacing == InitPacing /\ [][NextPacing]_vars

\* ------------------------------------------------- download (collectPins)
\* const pageLimit = 1000
pageLimit == 1000

\* the remote holds fewer than MaxPages full pages of pins
PinTotals ==
  {k * pageLimit + r : k \in 0..(MaxPages - 1), r \in {0, 1, 37, pageLimit - 1}}

\* response.rows of pinList for an offset and a limit: the run of rows
\* offset+1 .. min(offset+limit, total); empty when last < first
PageRows(offset, limit) == [first |-> offset + 1, last |-> Min(offset + limit, totalPins)]

\* rows.length after normalizeRows
RowCount(rows) == IF rows.last < rows.first THEN 0 ELSE rows.last - rows.first + 1

\* isEmptyResult
isEmptyResult(totalResults, rowCount) == totalResults = 0 \/ rowCount <= 0

\* a page is taken to be followed by another only when it overflows the limit
hasMoreResultsStrict(rowCount, limit) == rowCount > limit

\* hasMoreResults
hasMoreResults(rowCount, limit) == rowCount >= limit

InitDownload ==
  /\ mode = "download"
  /\ SideIdle
  /\ maxConcurrent = 1
  /\ Untimed
  /\ files = <<>>
  /\ pc = "start"
  /\ error = None
  /\ returned = None
  /\ persisted = None
  /\ queue = <<>>
  /\ st = <<>>
  /\ mapping = EmptyObject
  /\ firstFailed = 0
  /\ events = [i \in DOMAIN files |-> <<>>]
  /\ run = 1
  /\ firstOutput = None
  /\ NoFinalHash
  /\ outputPath = "o"
  /\ cacheFile = None
  /\ cacheReads = 0
  /\ outputSaves = 0
  /\ existingCIDs = EmptyObject
  /\ results = <<>>
  /\ pinCalls = <<>>
  /\ pinOutcome = <<>>
  /\ tracker = NoTracker
  /\ settleOrder = <<>>
  /\ posts = 0
  /\ postOutcome = "none"
  /\ invocation = [entry |-> "collectPins"]
  /\ pinNames = <<Some(PathF1)>>
  /\ pinStatus \in {"all", "pinned", "unpinned"}
  /\ totalPins \in PinTotals
  /\ dl = "loop"
  /\ pageOffset = 0
  /\ pins = <<>>
  /\ requests = 0
  /\ pageSizes = <<>>
  /\ filters = <<>>

\* a filter that counts pages, not rows, in pageOffset
listPinsFilterByPage(status, offset, limit) ==
  [status |-> status, pageLimit |-> limit, pageOffset |-> offset \div limit]

\* listPins: the filter handed to pinata.pinList
listPinsFilter(status, offset, limit) ==
  [status |-> status, pageLimit |-> limit, pageOffset |-> offset]

\* while (hasMore): listPins issues the pinList request for the next page
RequestPage ==
  /\ mode = "download"
  /\ dl = "loop"
  /\ requests < MaxPages
  /\ requests' = requests + 1
  /\ filters' = Append(filters, listPinsFilter(pinStatus, pageOffset, pageLimit))
  /\ dl' = "requesting"
  /\ UNCHANGED <<cfgVars, sideVars, clockVars, folderVars, outVars, queue, st, hashVars, rerunVars, uploadVars,
                 invocation, pinNames, pinStatus, totalPins, pageOffset, pins, pageSizes>>

\* the response arrives: the rest of the loop body
ReceivePage ==
  /\ mode = "download"
  /\ dl = "requesting"
  /\ LET rows == PageRows(pageOffset, pageLimit)
         hasMore == hasMoreResults(RowCount(rows), pageLimit)
     IN  /\ pageSizes' = Append(pageSizes, RowCount(rows))
         /\ IF isEmptyResult(totalPins, RowCount(rows))
              THEN /\ dl' = "returned"
                   /\ UNCHANGED <<pins, pageOffset>>
              ELSE /\ pins' = Append(pins, rows)
                   /\ pageOffset' = IF hasMore THEN pageOffset + RowCount(rows) ELSE pageOffset
                   /\ dl' = IF hasMore THEN "loop" ELSE "returned"
  /\ UNCHANGED <<cfgVars, sideVars, clockVars, folderVars, outVars, queue, st, hashVars, rerunVars, uploadVars,
                 invocation, pinNames, pinStatus, totalPins, requests, filters>>

\* pinList rejects: listPins rethrows and collectPins rejects
ListPinsFails ==
  /\ mode = "download"
  /\ dl = "requesting"
  /\ dl' = "rejected"
  /\ UNCHANGED <<cfgVars, sideVars, clockVars, folderVars, outVars, queue, st, hashVars, rerunVars, uploadVars,
                 invocation, pinNames, pinStatus, totalPins, pageOffset, pins, requests, pageSizes,
                 filters>>

NextDownload ==
  \/ RequestPage
  \/ ReceivePage
  \/ ListPinsFails

SpecDownload == InitDownload /\ [][NextDownload]_vars

\* --------------------------------------- download command and processor
\* most pins the remote holds when the mapping is followed pin by pin
MaxPins == 3

\* metadata.name of a pin: absent, the empty string, or a file name
PinNameOptions == {None, Some(<<>>), Some(PathF1), Some(PathF2)}

\* !fileName: the name is undefined or the empty string
IsNameless(name) == IF name = None THEN TRUE ELSE Val(name) = <<>>

\* metadata?.name and ipfs_pin_hash of the remote's row r
PinName(r) == IF pinNames = <<>> THEN None ELSE pinNames[((r - 1) % Len(pinNames)) + 1]

PinHash(r) ==
  CASE r = 1 -> "QmP1"
    [] r = 2 -> "QmP2"
    [] r = 3 -> "QmP3"
    [] OTHER -> "QmP"

\* a reduce that keeps the hash of the first row carrying a name
RECURSIVE MapRowsKeepFirst(_, _, _)
MapRowsKeepFirst(acc, first, last) ==
  IF last < first THEN acc
  ELSE MapRowsKeepFirst(IF IsNameless(PinName(first)) THEN acc
                        ELSE IF ObjHas(acc, Val(PinName(first))) THEN acc
                        ELSE ObjSet(acc, Val(PinName(first)), PinHash(first)),
                        first + 1, last)

\* the reduce of mapPinsToFileMapping over the rows first .. last of a page
RECURSIVE MapRows(_, _, _)
MapRows(acc, first, last) ==
  IF last < first THEN acc
  ELSE MapRows(IF IsNameless(PinName(first)) THEN acc
               ELSE ObjSet(acc, Val(PinName(first)), PinHash(first)),
               first + 1, last)

\* mapPinsToFileMapping over the pages collected
RECURSIVE MapPages(_, _)
MapPages(acc, pages) ==
  IF pages = <<>> THEN acc
  ELSE MapPages(MapRows(acc, Head(pages).first, Head(pages).last), Tail(pages))

mapPinsToFileMapping(pages) == MapPages(EmptyObject, pages)

\* String.prototype.toLowerCase on the values --status is given
toLowerCase(s) ==
  CASE s = "ALL" -> "all"
    [] s = "Pinned" -> "pinned"
    [] OTHER -> s

\* `download` run from the command line: the credentials are set or not,
\* --status and --output are given or not
CommandInvocations ==
  {[entry |-> "command", credentials |-> c, status |-> s, output |-> o] :
     c \in BOOLEAN,
     s \in {None, Some("ALL"), Some("Pinned"), Some("unpinned"), Some("queued")},
     o \in {None, Some(<<"o">>), Some(<<>>)}}

\* DownloadProcessor.process called by a program
ProcessorInvocations ==
  {[entry |-> "processor", folderPath |-> f, outputPath |-> o, status |-> s] :
     f \in {<<>>, <<" ">>, <<"f">>}, o \in {<<>>, <<" ">>, <<"o">>},
     s \in {"all", "pinned", "unpinned"}}

\* DownloadCommand.execute: the processing options handed to the processor
commandProcessingOptions(inv) ==
  [folderPath |-> <<>>,
   outputPath |-> IF inv.output = None THEN <<"d">> ELSE Val(inv.output)]

\* DownloadCommand.validatePinStatus(options.status || 'all')
commandStatus(inv) == IF inv.status = None THEN "all" ELSE toLowerCase(Val(inv.status))

\* the error the invocation ends with before any request is made, None
\* when the download begins
startError(inv) ==
  IF inv.entry = "processor"
    THEN validateOptions([folderPath |-> inv.folderPath, outputPath |-> inv.outputPath])
  ELSE IF inv.output # None /\ ~isNonEmptyString(Val(inv.output))
    THEN Thrown("Output path cannot be empty")
  ELSE IF ~inv.credentials
    THEN Thrown("PINATA_API_KEY and PINATA_API_SECRET environment variables are required")
  ELSE IF commandStatus(inv) \notin {"all", "pinned", "unpinned"}
    THEN Thrown("Invalid pin status")
  ELSE validateOptions(commandProcessingOptions(inv))

\* a download begins; the output path holds the given file, None when it
\* holds none
DownloadStartsOver(outputFile) ==
  /\ mode = "download"
  /\ SideIdle
  /\ maxConcurrent = 1
  /\ Untimed
  /\ files = <<>>
  /\ pc = "start"
  /\ error = None
  /\ returned = None
  /\ persisted = outputFile
  /\ queue = <<>>
  /\ st = <<>>
  /\ mapping = EmptyObject
  /\ firstFailed = 0
  /\ events = [i \in DOMAIN files |-> <<>>]
  /\ run = 1
  /\ firstOutput = None
  /\ NoFinalHash
  /\ outputPath = "o"
  /\ cacheFile = None
  /\ cacheReads = 0
  /\ outputSaves = 0
  /\ existingCIDs = EmptyObject
  /\ results = <<>>
  /\ pinCalls = <<>>
  /\ pinOutcome = <<>>
  /\ tracker = NoTracker
  /\ settleOrder = <<>>
  /\ posts = 0
  /\ postOutcome = "none"
  /\ invocation \in CommandInvocations \cup ProcessorInvocations
  /\ totalPins \in 0..MaxPins
  /\ pinNames \in [1..totalPins -> PinNameOptions]
  /\ pinStatus = "all"
  /\ dl = "idle"
  /\ pageOffset = 0
  /\ pins = <<>>
  /\ requests = 0
  /\ pageSizes = <<>>
  /\ filters = <<>>

\* the download is run with no file at the output path yet
InitDownloadCommand == DownloadStartsOver(None)

\* the mapping an earlier download saved at the output path
PreviousDownload == ObjSet(EmptyObject, PathF1, "QmOld1")

\* the download is run again, over the output file of an earlier download
InitDownloadAgain == DownloadStartsOver(Some(PreviousDownload))

\* the options are validated (by the command, then by the processor); the
\* download ends with the error thrown, or downloadCIDMappings begins
DownloadBegins ==
  /\ mode = "download"
  /\ invocation.entry \in {"command", "processor"}
  /\ pc = "start"
  /\ IF startError(invocation) # None
       THEN /\ pc' = "rejected"
            /\ error' = startError(invocation)
            /\ UNCHANGED <<dl, pinStatus>>
       ELSE /\ pc' = "awaiting"
            /\ dl' = "loop"
            /\ pinStatus' = IF invocation.entry = "command"
                              THEN commandStatus(invocation) ELSE invocation.status
            /\ UNCHANGED error
  /\ UNCHANGED <<cfgVars, sideVars, clockVars, folderVars, returned, persisted, queue, st, hashVars, rerunVars,
                 uploadVars, invocation, pinNames, totalPins, pageOffset, pins, requests,
                 pageSizes, filters>>

\* a download that saves whatever mapping it got, empty or not
DownloadResolvesSavesAlways ==
  /\ mode = "download"
  /\ pc = "awaiting"
  /\ dl = "returned"
  /\ returned' = Some(mapPinsToFileMapping(pins))
  /\ persisted' = Some(mapPinsToFileMapping(pins))
  /\ pc' = "resolved"
  /\ UNCHANGED <<cfgVars, sideVars, clockVars, folderVars, error, queue, st, hashVars, rerunVars, uploadVars,
                 downloadVars>>

\* collectPins returned: the pins are mapped; an empty mapping is returned
\* unsaved, any other is saved at the output path and returned
DownloadResolves ==
  /\ mode = "download"
  /\ pc = "awaiting"
  /\ dl = "returned"
  /\ returned' = Some(mapPinsToFileMapping(pins))
  /\ persisted' = IF mapPinsToFileMapping(pins) = EmptyObject
                    THEN persisted ELSE Some(mapPinsToFileMapping(pins))
  /\ pc' = "resolved"
  /\ UNCHANGED <<cfgVars, sideVars, clockVars, folderVars, error, queue, st, hashVars, rerunVars, uploadVars,
                 downloadVars>>

\* collectPins returned, the mapping is not empty and saveJson throws
DownloadSaveFails ==
  /\ mode = "download"
  /\ pc = "awaiting"
  /\ dl = "returned"
  /\ mapPinsToFileMapping(pins) # EmptyObject
  /\ error' = Thrown("save")
  /\ pc' = "rejected"
  /\ UNCHANGED <<cfgVars, sideVars, clockVars, folderVars, returned, persisted, queue, st, hashVars, rerunVars,
                 uploadVars, downloadVars>>

\* collectPins rejected: downloadCIDMappings and process() reject
DownloadRejects ==
  /\ mode = "download"
  /\ pc = "awaiting"
  /\ dl = "rejected"
  /\ error' = Thrown("listPins")
  /\ pc' = "rejected"
  /\ UNCHANGED <<cfgVars, sideVars, clockVars, folderVars, returned, persisted, queue, st, hashVars, rerunVars,
                 uploadVars, downloadVars>>

NextDownloadCommand ==
  \/ DownloadBegins
  \/ NextDownload
  \/ DownloadResolves
  \/ DownloadSaveFails
  \/ DownloadRejects

SpecDownloadCommand == InitDownloadCommand /\ [][NextDownloadCommand]_vars

SpecDownloadAgain == InitDownloadAgain /\ [][NextDownloadCommand]_vars

\* ----------------------------------------------- folder upload processor
\* options.folderPath.split('/').pop(): what follows the last '/'
LastSegment(p) ==
  LET S == {i \in DOMAIN p : p[i] = "/"}
  IN  IF S = {} THEN p ELSE SubSeq(p, (CHOOSE i \in S : \A j \in S : j <= i) + 1, Len(p))

\* folderName || options.folderPath.split('/').pop() || 'metadata'
displayName(inv) ==
  IF inv.folderName # None /\ Val(inv.folderName) # <<>> THEN Val(inv.folderName)
  ELSE IF LastSegment(inv.folderPath) # <<>> THEN LastSegment(inv.folderPath)
  ELSE <<"m", "e", "t", "a", "d", "a", "t", "a">>

\* FolderUploadProcessor.process called with its options and a folder name
FolderInvocations ==
  {[entry |-> "folder", folderPath |-> f, outputPath |-> o, folderName |-> n] :
     f \in {<<>>, <<" ">>, <<"f">>, <<"d", "/", "f">>, <<"f", "/">>},
     o \in {<<>>, <<" ">>, <<"o">>},
     n \in {None, Some(<<>>), Some(<<"n">>)}}

\* the files read(folderPath) finds in the folder
FolderContents == {<<>>, <<PathF1>>, <<PathF1, PathF2>>}

\* response.data.IpfsHash of the folder
FolderCid == "QmFolder"

\* error instanceof Error ? error.message : String(error)
errorMessage(thrown) ==
  IF thrown.type = "Error" THEN thrown.message
  ELSE IF thrown.type = "string" THEN thrown.message
  ELSE "[object Object]"

FolderSucceeded(inv) ==
  [folderName |-> displayName(inv), cid |-> FolderCid, success |-> TRUE, error |-> Undefined]

FolderFailed(inv, message) ==
  [folderName |-> displayName(inv), cid |-> "", success |-> FALSE, error |-> message]

InitFolder ==
  /\ mode = "folder"
  /\ SideIdle
  /\ maxConcurrent = 5
  /\ Untimed
  /\ files \in FolderContents
  /\ pc = "start"
  /\ error = None
  /\ returned = None
  /\ persisted = None
  /\ queue = <<>>
  /\ st = [i \in DOMAIN files |-> "queued"]
  /\ mapping = EmptyObject
  /\ firstFailed = 0
  /\ events = [i \in DOMAIN files |-> <<>>]
  /\ run = 1
  /\ firstOutput = None
  /\ NoFinalHash
  /\ outputPath = "o"
  /\ cacheFile = None
  /\ cacheReads = 0
  /\ outputSaves = 0
  /\ existingCIDs = EmptyObject
  /\ results = [i \in DOMAIN files |-> None]
  /\ pinCalls = [i \in DOMAIN files |-> 0]
  /\ pinOutcome = [i \in DOMAIN files |-> "none"]
  /\ tracker = NoTracker
  /\ settleOrder = <<>>
  /\ posts = 0
  /\ postOutcome = "none"
  /\ invocation \in FolderInvocations
  /\ pinNames = <<>>
  /\ pinStatus = "all"
  /\ totalPins = 0
  /\ dl = "idle"
  /\ pageOffset = 0
  /\ pins = <<>>
  /\ requests = 0
  /\ pageSizes = <<>>
  /\ filters = <<>>

\* process(): the options are validated; uploadFolder reads the folder and
\* throws when it is empty, otherwise posts the one multipart request
FolderBegins ==
  /\ mode = "folder"
  /\ pc = "start"
  /\ IF validateOptions(invocation) # None
       THEN /\ pc' = "rejected"
            /\ error' = validateOptions(invocation)
            /\ UNCHANGED <<returned, posts>>
       ELSE IF files = <<>>
         THEN /\ pc' = "resolved"
              /\ returned' = Some(FolderFailed(invocation, "No files found in folder"))
              /\ UNCHANGED <<error, posts>>
         ELSE /\ pc' = "uploading"
              /\ posts' = posts + 1
              /\ UNCHANGED <<error, returned>>
  /\ UNCHANGED <<cfgVars, sideVars, clockVars, postOutcome, persisted, queue, st, hashVars, rerunVars,
                 uploadVars, downloadVars>>

\* the request succeeds: the CID is saved at the output path and returned
FolderPostResolves ==
  /\ mode = "folder"
  /\ pc = "uploading"
  /\ postOutcome' = "resolved"
  /\ persisted' = Some(FolderCid)
  /\ returned' = Some(FolderSucceeded(invocation))
  /\ pc' = "resolved"
  /\ UNCHANGED <<cfgVars, sideVars, clockVars, posts, error, queue, st, hashVars, rerunVars,
                 uploadVars, downloadVars>>

\* the request succeeds and saveJson throws inside the try block: the catch
\* block returns a failed result
FolderPostResolvesSaveFails ==
  /\ mode = "folder"
  /\ pc = "uploading"
  /\ postOutcome' = "resolved"
  /\ returned' = Some(FolderFailed(invocation, "save"))
  /\ pc' = "resolved"
  /\ UNCHANGED <<cfgVars, sideVars, clockVars, posts, error, persisted, queue, st, hashVars, rerunVars,
                 uploadVars, downloadVars>>

\* the request fails: the catch block returns a failed result, nothing is saved
FolderPostRejects(thrown) ==
  /\ mode = "folder"
  /\ pc = "uploading"
  /\ postOutcome' = "rejected"
  /\ returned' = Some(FolderFailed(invocation, errorMessage(thrown)))
  /\ pc' = "resolved"
  /\ UNCHANGED <<cfgVars, sideVars, clockVars, posts, error, persisted, queue, st, hashVars, rerunVars,
                 uploadVars, downloadVars>>

NextFolder ==
  \/ FolderBegins
  \/ FolderPostResolves
  \/ FolderPostResolvesSaveFails
  \/ \E thrown \in ThrownValues : FolderPostRejects(thrown)

SpecFolder == InitFolder /\ [][NextFolder]_vars

\* ------------------------------------------------- ErrorHandler.withRetry
\* the classes of BaseApplicationError
AppErrorClasses ==
  {"ValidationError", "ConfigurationError", "FileSystemError", "NetworkError",
   "PinataError", "ProcessingError", "SystemError"}

\* new NetworkError(message, NETWORK_UNAVAILABLE, context, true, cause)
NetworkError(message) ==
  [type |-> "NetworkError", message |-> message, code |-> "NETWORK_UNAVAILABLE",
   severity |-> "medium", isRetryable |-> TRUE]

\* new FileSystemError(message, FILE_ACCESS_DENIED, context, cause)
FileSystemError(message) ==
  [type |-> "FileSystemError", message |-> message, code |-> "FILE_ACCESS_DENIED",
   severity |-> "medium", isRetryable |-> FALSE]

\* new PinataError(message, PINATA_UPLOAD_FAILED, context, true, cause)
PinataError(message) ==
  [type |-> "PinataError", message |-> message, code |-> "PINATA_UPLOAD_FAILED",
   severity |-> "medium", isRetryable |-> TRUE]

\* new SystemError(message, UNKNOWN_ERROR, context, cause): severity high
SystemError(message) ==
  [type |-> "SystemError", message |-> message, code |-> "UNKNOWN_ERROR",
   severity |-> "high", isRetryable |-> FALSE]

\* new ValidationError(message)
ValidationError(message) ==
  [type |-> "ValidationError", message |-> message, code |-> "VALIDATION_ERROR",
   severity |-> "low", isRetryable |-> FALSE]

\* the messages of the plain Errors followed, and the patterns they match:
\* /ETIMEDOUT/ and /timeout/i (network), /ENOENT/ and /EACCES/ (file system), /429/ and
\* /pinata/i (Pinata); the second matches a network and a Pinata pattern
ErrorMessages ==
  {"ETIMEDOUT", "Pinata request timeout", "ENOENT", "EACCES", "429 Too Many Requests",
   "boom"}

isNetworkError(message) == message \in {"ETIMEDOUT", "Pinata request timeout"}

isFileSystemError(message) == message \in {"ENOENT", "EACCES"}

isPinataError(message) == message \in {"Pinata request timeout", "429 Too Many Requests"}

\* ErrorHandler.normalizeFromErrorInstance
normalizeFromErrorInstance(message) ==
  IF isNetworkError(message) THEN NetworkError(message)
  ELSE IF isFileSystemError(message) THEN FileSystemError(message)
  ELSE IF isPinataError(message) THEN PinataError(message)
  ELSE SystemError(message)

\* ErrorHandler.createSystemErrorForUnknown
createSystemErrorForUnknown(thrown) ==
  SystemError(IF thrown.type = "string" THEN thrown.message ELSE "Unknown error occurred")

\* ErrorHandler.normalizeError: an application error is returned as it is
normalizeError(thrown) ==
  IF thrown.type \in AppErrorClasses THEN thrown
  ELSE IF thrown.type = "Error" THEN normalizeFromErrorInstance(thrown.message)
  ELSE createSystemErrorForUnknown(thrown)

\* what the operation handed to withRetry rejects with: application errors,
\* plain Errors, a string, an object
OperationThrows ==
  {NetworkError("ECONNRESET"), ValidationError("invalid")} \cup
  {[type |-> "Error", message |-> m] : m \in ErrorMessages} \cup
  {[type |-> "string", message |-> "Too Many Requests"],
   [type |-> "object", message |-> Undefined]}

\* ErrorHandler.shouldRetry
shouldRetry(err, a, max) == err.isRetryable /\ a < max

\* a backoff that grows by backoffMs per attempt
delayLinear(ms, a) == ms * a

\* ErrorHandler.delayWithBackoff: delay = backoffMs * 2 ** (attempt - 1)
delayWithBackoff(ms, a) == ms * 2 ^ (a - 1)

\* withRetry's default arguments
DefaultMaxRetries == 3
DefaultBackoffMs == 1000

InitRetry ==
  /\ mode = "retry"
  /\ NoBatch
  /\ maxRetries \in 0..MaxRetriesBound
  /\ backoffMs \in {DefaultBackoffMs, 250}
  /\ attempt = 1
  /\ invocations = 0
  /\ waits = <<>>
  /\ lastError = None
  /\ retryPc = "start"
  /\ retryThrown = None
  /\ CommandIdle

\* the loop head at attempt a: the operation is invoked while a <= maxRetries;
\* past the loop lastError is thrown, or the SystemError of a loop that never ran
EnterAttempt(a) ==
  /\ attempt' = a
  /\ IF a <= maxRetries
       THEN /\ invocations' = invocations + 1
            /\ retryPc' = "running"
            /\ UNCHANGED retryThrown
       ELSE /\ retryPc' = "thrown"
            /\ retryThrown' =
                 IF lastError = None
                   THEN Some(SystemError("Operation failed without captured error"))
                   ELSE lastError
            /\ UNCHANGED invocations

\* withRetry is called
RetryBegins ==
  /\ mode = "retry"
  /\ retryPc = "start"
  /\ EnterAttempt(1)
  /\ UNCHANGED <<cfgVars, clockVars, folderVars, outVars, queue, st, hashVars, rerunVars,
                 uploadVars, downloadVars, commandVars, maxRetries, backoffMs, waits, lastError>>

\* the operation resolves: withRetry returns its result
OperationResolves ==
  /\ mode = "retry"
  /\ retryPc = "running"
  /\ retryPc' = "returned"
  /\ UNCHANGED <<cfgVars, clockVars, folderVars, outVars, queue, st, hashVars, rerunVars,
                 uploadVars, downloadVars, commandVars, maxRetries, backoffMs, attempt, invocations,
                 waits, lastError, retryThrown>>

\* a retry loop that tries again whatever the failure was
OperationRejectsRetriesAll(thrown) ==
  /\ mode = "retry"
  /\ retryPc = "running"
  /\ lastError' = Some(normalizeError(thrown))
  /\ IF attempt < maxRetries
       THEN /\ waits' = Append(waits, delayWithBackoff(backoffMs, attempt))
            /\ retryPc' = "sleeping"
            /\ UNCHANGED retryThrown
       ELSE /\ retryPc' = "thrown"
            /\ retryThrown' = Some(normalizeError(thrown))
            /\ UNCHANGED waits
  /\ UNCHANGED <<cfgVars, clockVars, folderVars, outVars, queue, st, hashVars, rerunVars,
                 uploadVars, downloadVars, commandVars, maxRetries, backoffMs, attempt, invocations>>

\* the operation rejects: the error is normalized and kept; a retryable error
\* before the last attempt starts the backoff delay, any other leaves the
\* loop and is thrown
OperationRejects(thrown) ==
  /\ mode = "retry"
  /\ retryPc = "running"
  /\ lastError' = Some(normalizeError(thrown))
  /\ IF shouldRetry(normalizeError(thrown), attempt, maxRetries)
       THEN /\ waits' = Append(waits, delayWithBackoff(backoffMs, attempt))
            /\ retryPc' = "sleeping"
            /\ UNCHANGED retryThrown
       ELSE /\ retryPc' = "thrown"
            /\ retryThrown' = Some(normalizeError(thrown))
            /\ UNCHANGED waits
  /\ UNCHANGED <<cfgVars, clockVars, folderVars, outVars, queue, st, hashVars, rerunVars,
                 uploadVars, downloadVars, commandVars, maxRetries, backoffMs, attempt, invocations>>

\* the delay is over: the next attempt begins
DelayElapses ==
  /\ mode = "retry"
  /\ retryPc = "sleeping"
  /\ EnterAttempt(attempt + 1)
  /\ UNCHANGED <<cfgVars, clockVars, folderVars, outVars, queue, st, hashVars, rerunVars,
                 uploadVars, downloadVars, commandVars, maxRetries, backoffMs, waits, lastError>>

NextRetry ==
  \/ RetryBegins
  \/ OperationResolves
  \/ \E thrown \in OperationThrows : OperationRejects(thrown)
  \/ DelayElapses

SpecRetry == InitRetry /\ [][NextRetry]_vars

\* ------------------------------------------------- the upload-files command
isDefined(option) == option # None

\* guards.ts isNumberInRange
isNumberInRange(n, min, max) == n >= min /\ n <= max

\* the runs of upload-files followed: no option; --concurrent 2 --min-time
\* 1000 --folder f --output o; a blank folder; a blank output; --concurrent
\* 11; --min-time 50; no credentials in the environment; a folder that
\* cannot be read
UploadCommandDefaults ==
  [name |-> "upload-files", folder |-> None, output |-> None, concurrent |-> None,
   minTime |-> None, credentials |-> TRUE, folderReadable |-> TRUE]

UploadCommandInvocations ==
  {UploadCommandDefaults,
   [UploadCommandDefaults EXCEPT !.folder = Some(<<"f">>), !.output = Some(<<"o">>),
                                 !.concurrent = Some(2), !.minTime = Some(1000)],
   [UploadCommandDefaults EXCEPT !.folder = Some(<<" ">>)],
   [UploadCommandDefaults EXCEPT !.output = Some(<<>>)],
   [UploadCommandDefaults EXCEPT !.concurrent = Some(11)],
   [UploadCommandDefaults EXCEPT !.minTime = Some(50)],
   [UploadCommandDefaults EXCEPT !.credentials = FALSE],
   [UploadCommandDefaults EXCEPT !.folderReadable = FALSE]}

\* BaseCommand.validateOptions, then createProcessor's getPinataConfig: the
\* error execute() catches before process() is called, None when there is none
commandStartError(cmd) ==
  IF isDefined(cmd.folder) /\ ~isNonEmptyString(Val(cmd.folder))
    THEN Thrown("Folder path cannot be empty")
  ELSE IF isDefined(cmd.output) /\ ~isNonEmptyString(Val(cmd.output))
    THEN Thrown("Output path cannot be empty")
  ELSE IF isDefined(cmd.concurrent) /\ ~isNumberInRange(Val(cmd.concurrent), 1, 10)
    THEN Thrown("Concurrent operations must be between 1 and 10")
  ELSE IF isDefined(cmd.minTime) /\ Val(cmd.minTime) < 100
    THEN Thrown("Minimum time between operations must be at least 100ms")
  ELSE IF ~cmd.credentials
    THEN Thrown("PINATA_API_KEY and PINATA_API_SECRET environment variables are required")
  ELSE None

\* UploadFilesCommand.buildRateLimitConfig
buildRateLimitConfig(cmd) ==
  [maxConcurrent |-> IF isDefined(cmd.concurrent) THEN Val(cmd.concurrent)
                     ELSE DefaultUploadRateLimit.maxConcurrent,
   minTime |-> IF isDefined(cmd.minTime) THEN Val(cmd.minTime)
               ELSE DefaultUploadRateLimit.minTime]

InitUploadCommand ==
  /\ mode = "upload"
  /\ RetryIdle
  /\ command \in UploadCommandInvocations
  /\ cmdPc = "start"
  /\ exitCode = None
  /\ maxConcurrent = buildRateLimitConfig(command).maxConcurrent
  /\ minTime = buildRateLimitConfig(command).minTime
  /\ now = 0
  /\ startTimes = <<>>
  /\ files \in PacingFileLists
  /\ pc = "start"
  /\ error = None
  /\ returned = None
  /\ persisted = None
  /\ queue = <<>>
  /\ st = [i \in DOMAIN files |-> "queued"]
  /\ mapping = EmptyObject
  /\ firstFailed = 0
  /\ events = [i \in DOMAIN files |-> <<>>]
  /\ run = 1
  /\ firstOutput = None
  /\ NoFinalHash
  /\ outputPath = "o"
  /\ cacheFile \in {None, Some(CacheF1)}
  /\ cacheReads = 0
  /\ outputSaves = 0
  /\ existingCIDs = EmptyObject
  /\ results = [i \in DOMAIN files |-> None]
  /\ pinCalls = [i \in DOMAIN files |-> 0]
  /\ pinOutcome = [i \in DOMAIN files |-> "none"]
  /\ tracker = NoTracker
  /\ settleOrder = <<>>
  /\ NoDownload

\* execute(): the options are validated and the processor is built; what
\* either throws goes to handleError, which exits with code 1; otherwise
\* process() is called
UploadCommandBegins ==
  /\ command.name = "upload-files"
  /\ cmdPc = "start"
  /\ IF commandStartError(command) # None
       THEN /\ error' = commandStartError(command)
            /\ cmdPc' = "exited"
            /\ exitCode' = Some(1)
       ELSE /\ cmdPc' = "processing"
            /\ UNCHANGED <<error, exitCode>>
  /\ UNCHANGED <<cfgVars, retryVars, command, clockVars, folderVars, pc, returned, persisted,
                 queue, st, hashVars, rerunVars, uploadVars, downloadVars>>

\* process(): the cache is loaded, then readFiles throws on the folder;
\* process() rejects with the normalized error
DiscoveryFails ==
  /\ mode = "upload"
  /\ cmdPc = "processing"
  /\ pc = "start"
  /\ OptionsValid
  /\ ~command.folderReadable
  /\ cacheReads' = cacheReads + 1
  /\ existingCIDs' = loadExistingCIDs
  /\ error' = Some([kind |-> "readFiles", file |-> 0])
  /\ pc' = "rejected"
  /\ UNCHANGED <<cfgVars, sideVars, clockVars, folderVars, returned, persisted, queue, st,
                 cacheFile, outputSaves, results, settleOrder, pinCalls, pinOutcome, tracker, notUploadVars>>

\* a command that exits with code 1 when a file of the batch failed
UploadCommandReportsFailures ==
  /\ command.name = "upload-files"
  /\ cmdPc = "processing"
  /\ pc = "resolved"
  /\ cmdPc' = "exited"
  /\ exitCode' = IF \E i \in DOMAIN Val(returned) : ~Val(returned)[i].success
                   THEN Some(1) ELSE Some(0)
  /\ UNCHANGED <<cfgVars, retryVars, command, clockVars, folderVars, outVars, queue, st,
                 hashVars, rerunVars, uploadVars, downloadVars>>

\* process() has resolved: reportResults logs the counts, execute() returns
\* and the process ends with exit code 0
UploadCommandReports ==
  /\ command.name = "upload-files"
  /\ cmdPc = "processing"
  /\ pc = "resolved"
  /\ cmdPc' = "exited"
  /\ exitCode' = Some(0)
  /\ UNCHANGED <<cfgVars, retryVars, command, clockVars, folderVars, outVars, queue, st,
                 hashVars, rerunVars, uploadVars, downloadVars>>

\* process() has rejected: handleError logs and calls process.exit(1)
UploadCommandHandlesError ==
  /\ command.name = "upload-files"
  /\ cmdPc = "processing"
  /\ pc = "rejected"
  /\ cmdPc' = "exited"
  /\ exitCode' = Some(1)
  /\ UNCHANGED <<cfgVars, retryVars, command, clockVars, folderVars, outVars, queue, st,
                 hashVars, rerunVars, uploadVars, downloadVars>>

NextUploadCommand ==
  \/ UploadCommandBegins
  \/ DiscoveryFails
  \/ NextPacing
  \/ UploadCommandReports
  \/ UploadCommandHandlesError

SpecUploadCommand == InitUploadCommand /\ [][NextUploadCommand]_vars

\* --------------------------------------------------------- the hash command
\* PathOptions.finalOutput: .default('./output/file-hashOfHashes.json')
DefaultFinalOutput == <<"h", "o", "h">>

\* createRateLimitConfig: options.concurrent || 5
DefaultCommandConcurrent == 5

\* the runs of hash followed: no option; --final-output h; --final-output
\* with an empty path; --concurrent 2 --output o --final-output h; a blank
\* folder; --concurrent 11
HashCommandDefaults ==
  [name |-> "hash", folder |-> None, output |-> None, finalOutput |-> None,
   concurrent |-> None, folderReadable |-> TRUE]

HashCommandInvocations ==
  {HashCommandDefaults,
   [HashCommandDefaults EXCEPT !.finalOutput = Some(<<"h">>)],
   [HashCommandDefaults EXCEPT !.finalOutput = Some(<<>>)],
   [HashCommandDefaults EXCEPT !.concurrent = Some(2), !.output = Some(<<"o">>),
                               !.finalOutput = Some(<<"h">>)],
   [HashCommandDefaults EXCEPT !.folder = Some(<<" ">>)],
   [HashCommandDefaults EXCEPT !.concurrent = Some(11)]}

\* options.finalOutput as commander hands it to the action: the value given
\* on the command line, the option's default when --final-output is absent
finalOutputOption(cmd) ==
  IF isDefined(cmd.finalOutput) THEN Val(cmd.finalOutput) ELSE DefaultFinalOutput

\* if (options.finalOutput): a non-empty string is truthy
wantsFinalHash(cmd) == finalOutputOption(cmd) # <<>>

\* BaseCommand.validateOptions on the hash command's options
hashCommandStartError(cmd) ==
  IF isDefined(cmd.folder) /\ ~isNonEmptyString(Val(cmd.folder))
    THEN Thrown("Folder path cannot be empty")
  ELSE IF isDefined(cmd.output) /\ ~isNonEmptyString(Val(cmd.output))
    THEN Thrown("Output path cannot be empty")
  ELSE IF isDefined(cmd.concurrent) /\ ~isNumberInRange(Val(cmd.concurrent), 1, 10)
    THEN Thrown("Concurrent operations must be between 1 and 10")
  ELSE None

\* BaseCommand.createRateLimitConfig
createRateLimitConfig(cmd) ==
  [maxConcurrent |-> IF isDefined(cmd.concurrent) /\ Val(cmd.concurrent) # 0
                       THEN Val(cmd.concurrent) ELSE DefaultCommandConcurrent]

InitHashCommand ==
  /\ mode = "hash"
  /\ RetryIdle
  /\ command \in HashCommandInvocations
  /\ cmdPc = "start"
  /\ exitCode = None
  /\ maxConcurrent = createRateLimitConfig(command).maxConcurrent
  /\ Untimed
  /\ files \in PacingFileLists
  /\ pc = "start"
  /\ error = None
  /\ returned = None
  /\ persisted = None
  /\ queue = <<>>
  /\ st = [i \in DOMAIN files |-> "queued"]
  /\ mapping = EmptyObject
  /\ firstFailed = 0
  /\ events = [i \in DOMAIN files |-> <<>>]
  /\ run = 1
  /\ firstOutput = None
  /\ NoFinalHash
  /\ outputPath = "o"
  /\ cacheFile = None
  /\ cacheReads = 0
  /\ outputSaves = 0
  /\ existingCIDs = EmptyObject
  /\ results = [i \in DOMAIN files |-> None]
  /\ pinCalls = [i \in DOMAIN files |-> 0]
  /\ pinOutcome = [i \in DOMAIN files |-> "none"]
  /\ tracker = NoTracker
  /\ settleOrder = <<>>
  /\ NoDownload

\* execute(): the options are validated; a failure goes to handleError,
\* which exits with code 1; otherwise processWithFinalHash is called when
\* options.finalOutput is truthy, process() when it is not
HashCommandBegins ==
  /\ command.name = "hash"
  /\ cmdPc = "start"
  /\ IF hashCommandStartError(command) # None
       THEN /\ error' = hashCommandStartError(command)
            /\ cmdPc' = "exited"
            /\ exitCode' = Some(1)
            /\ UNCHANGED finalPc
       ELSE /\ cmdPc' = "processing"
            /\ finalPc' = IF wantsFinalHash(command) THEN "awaiting" ELSE "none"
            /\ UNCHANGED <<error, exitCode>>
  /\ UNCHANGED <<cfgVars, retryVars, command, clockVars, folderVars, pc, returned, persisted,
                 queue, st, hashVars, run, firstOutput, finalHash, finalPersisted,
                 firstFinalHash, uploadVars, downloadVars>>

\* what execute() awaited has resolved: logSuccess, and the process ends
\* with exit code 0
HashCommandSucceeds ==
  /\ command.name = "hash"
  /\ cmdPc = "processing"
  /\ IF wantsFinalHash(command) THEN finalPc = "resolved" ELSE pc = "resolved"
  /\ cmdPc' = "exited"
  /\ exitCode' = Some(0)
  /\ UNCHANGED <<cfgVars, retryVars, command, clockVars, folderVars, outVars, queue, st,
                 hashVars, rerunVars, uploadVars, downloadVars>>

\* what execute() awaited has rejected: handleError exits with code 1
HashCommandHandlesError ==
  /\ command.name = "hash"
  /\ cmdPc = "processing"
  /\ IF wantsFinalHash(command) THEN finalPc = "rejected" ELSE pc = "rejected"
  /\ cmdPc' = "exited"
  /\ exitCode' = Some(1)
  /\ UNCHANGED <<cfgVars, retryVars, command, clockVars, folderVars, outVars, queue, st,
                 hashVars, rerunVars, uploadVars, downloadVars>>

NextHashCommand ==
  \/ HashCommandBegins
  \/ NextHash
  \/ ResolveFinalHash
  \/ ResolveFinalHashSaveFails
  \/ RejectFinalHash
  \/ HashCommandSucceeds
  \/ HashCommandHandlesError

SpecHashCommand == InitHashCommand /\ [][NextHashCommand]_vars

\* ------------------------------------------- the error process() rejects with
\* the Error behind a failure of the batch: readFileSync on a file that is
\* gone, outputJsonSync on a path that cannot be written, the list request
\* timing out, or the Error validateOptions throws with its message
RawError(err) ==
  [type |-> "Error",
   message |-> CASE err.kind = "file" -> "ENOENT"
                 [] err.kind = "save" -> "EACCES"
                 [] err.kind = "readFiles" -> "ENOENT"
                 [] err.kind = "listPins" -> "ETIMEDOUT"
                 [] OTHER -> err.kind]

\* thrown by validateOptions, before the try block of process()
IsValidationFailure(err) ==
  err.kind \in {"Folder path is required", "Output path is required"}

\* what process() rejects with: FileUploadProcessor normalizes what its try
\* block catches (handleProcessFailure); BaseFileProcessor.handleError, used
\* by the other processors, rethrows what it is given; validateOptions
\* throws outside the try block
processRejection ==
  IF mode = "upload" /\ ~IsValidationFailure(Val(error))
    THEN normalizeError(RawError(Val(error)))
    ELSE RawError(Val(error))

\* process() rejected (the download command's own checks are not process())
ProcessRejected ==
  /\ pc = "rejected"
  /\ error # None
  /\ mode = "download" => invocation.entry = "processor"

\* ------------------------------------------- FileUtils.getFileName, any path
\* longest path followed
MaxPathLen == 3

\* the characters of a path: a letter, a blank, the two separators, a newline
PathChars == {"a", " ", "/", "\\", "\n"}

AnyPaths == UNION {[1..n -> PathChars] : n \in 0..MaxPathLen}

\* getFileName is called with the path files[1]
InitGetFileName ==
  /\ mode = "getFileName"
  /\ SideIdle
  /\ maxConcurrent = 1
  /\ Untimed
  /\ files \in {<<p>> : p \in AnyPaths}
  /\ pc = "start"
  /\ error = None
  /\ returned = None
  /\ persisted = None
  /\ queue = <<>>
  /\ st = <<>>
  /\ mapping = EmptyObject
  /\ firstFailed = 0
  /\ events = [i \in DOMAIN files |-> <<>>]
  /\ run = 1
  /\ firstOutput = None
  /\ NoFinalHash
  /\ outputPath = "o"
  /\ cacheFile = None
  /\ cacheReads = 0
  /\ outputSaves = 0
  /\ existingCIDs = EmptyObject
  /\ results = <<>>
  /\ pinCalls = <<>>
  /\ pinOutcome = <<>>
  /\ tracker = NoTracker
  /\ settleOrder = <<>>
  /\ NoDownload

\* getFileName returns
GetFileNameReturns ==
  /\ mode = "getFileName"
  /\ pc = "start"
  /\ returned' = Some(getFileName(files[1]))
  /\ pc' = "resolved"
  /\ UNCHANGED <<cfgVars, sideVars, clockVars, folderVars, error, persisted, queue, st, hashVars,
                 rerunVars, uploadVars, downloadVars>>

NextGetFileName == GetFileNameReturns

SpecGetFileName == InitGetFileName /\ [][NextGetFileName]_vars

\* ------------------------------------------- the batch tracker, any batch size
\* largest batch followed: three steps of floor(N / 10)
MaxBatch == 30

\* a tracker is created for a batch of N items
InitTracker ==
  /\ mode = "tracker"
  /\ SideIdle
  /\ maxConcurrent = 1
  /\ Untimed
  /\ files = <<>>
  /\ pc = "start"
  /\ error = None
  /\ returned = None
  /\ persisted = None
  /\ queue = <<>>
  /\ st = <<>>
  /\ mapping = EmptyObject
  /\ firstFailed = 0
  /\ events = [i \in DOMAIN files |-> <<>>]
  /\ run = 1
  /\ firstOutput = None
  /\ NoFinalHash
  /\ outputPath = "o"
  /\ cacheFile = None
  /\ cacheReads = 0
  /\ outputSaves = 0
  /\ existingCIDs = EmptyObject
  /\ results = <<>>
  /\ pinCalls = <<>>
  /\ pinOutcome = <<>>
  /\ tracker \in {trackBatchOperation(n) : n \in 0..MaxBatch}
  /\ settleOrder = <<>>
  /\ NoDownload

\* a task of the batch settles with a success: recordSuccess
TrackerRecordsSuccess ==
  /\ mode = "tracker"
  /\ tracker.processed < tracker.total
  /\ tracker' = recordSuccess(tracker)
  /\ UNCHANGED <<cfgVars, sideVars, clockVars, folderVars, outVars, queue, st, cacheVars, existingCIDs,
                 results, settleOrder, pinCalls, pinOutcome, notUploadVars>>

\* a task of the batch settles with a failure: recordError
TrackerRecordsError ==
  /\ mode = "tracker"
  /\ tracker.processed < tracker.total
  /\ tracker' = recordError(tracker)
  /\ UNCHANGED <<cfgVars, sideVars, clockVars, folderVars, outVars, queue, st, cacheVars, existingCIDs,
                 results, settleOrder, pinCalls, pinOutcome, notUploadVars>>

NextTracker == TrackerRecordsSuccess \/ TrackerRecordsError

SpecTracker == InitTracker /\ [][NextTracker]_vars

\* ----------------------------------------- process() called with any options
\* the options a batch processor is called with: each path empty, blank or
\* non-empty
BatchInvocations ==
  {[entry |-> "processor", folderPath |-> f, outputPath |-> o] :
     f \in {<<>>, <<" ">>, <<"f">>}, o \in {<<>>, <<" ">>, <<"o">>}}

\* process() of the hash, CID or upload processor is called
InitProcessCall ==
  /\ mode \in {"hash", "cid", "upload"}
  /\ SideIdle
  /\ maxConcurrent \in 1..MaxConcurrentBound
  /\ Untimed
  /\ files \in PacingFileLists
  /\ pc = "start"
  /\ error = None
  /\ returned = None
  /\ persisted = None
  /\ queue = <<>>
  /\ st = [i \in DOMAIN files |-> "queued"]
  /\ mapping = EmptyObject
  /\ firstFailed = 0
  /\ events = [i \in DOMAIN files |-> <<>>]
  /\ run = 1
  /\ firstOutput = None
  /\ NoFinalHash
  /\ outputPath = "o"
  /\ cacheFile \in {None, Some(CacheF1)}
  /\ cacheReads = 0
  /\ outputSaves = 0
  /\ existingCIDs = EmptyObject
  /\ results = [i \in DOMAIN files |-> None]
  /\ pinCalls = [i \in DOMAIN files |-> 0]
  /\ pinOutcome = [i \in DOMAIN files |-> "none"]
  /\ tracker = NoTracker
  /\ settleOrder = <<>>
  /\ posts = 0
  /\ postOutcome = "none"
  /\ invocation \in BatchInvocations
  /\ pinNames = <<>>
  /\ pinStatus = "all"
  /\ totalPins = 0
  /\ dl = "idle"
  /\ pageOffset = 0
  /\ pins = <<>>
  /\ requests = 0
  /\ pageSizes = <<>>
  /\ filters = <<>>

\* ------------------------------------------------------- the whole program
Init ==
  InitHash \/ InitUpload \/ InitDownload \/ InitDownloadCommand \/ InitFolder \/ InitProcessCall

Next == RejectInvalidOptions \/ NextHash \/ NextUpload \/ NextDownloadCommand \/ NextFolder

Spec == Init /\ [][Next]_vars

\* ============================================================== properties

\* the keys of a JavaScript object, as enumerated, ascend in natural order
KeysAscending(obj) ==
  \A i, j \in DOMAIN obj : i < j => localeCompareNumeric(obj[i].k, obj[j].k) <= 0

\* C5 (as claimed): whatever the input list and the completion order, the
\* keys of the mapping the hash / CID processor returns and persists are in
\* ascending natural order (numeric segments by value).
C5_KeysInNaturalOrder ==
  (IsDigestMode /\ pc = "resolved") =>
    /\ KeysAscending(Val(returned))
    /\ persisted # None => KeysAscending(Val(persisted))

\* C6 (as claimed): a second run of the hash or CID processor on the same
\* files returns and persists exactly what the first run did (same keys,
\* values and key order), whatever the completion order in each run.
C6_TwoRunsIdentical ==
  (IsDigestMode /\ run = 2 /\ pc = "resolved") =>
    /\ returned = Val(firstOutput).returned
    /\ persisted = Val(firstOutput).persisted

\* C7: in a hash or CID batch, once reading or digesting a file has failed,
\* process() can only reject, it rejects with the error of the first file
\* that failed, and the output file is never written; a written output file
\* holds the result of every input file (no partial mapping).
C7_FailureRejectsAndPersistsNothing ==
  IsDigestMode =>
    /\ firstFailed # 0 =>
         /\ pc \in {"awaiting", "rejected"}
         /\ returned = None
         /\ persisted = None
         /\ pc = "awaiting" => ENABLED RejectBatch
         /\ pc = "rejected" => error = Some([kind |-> "file", file |-> firstFailed])
    /\ persisted # None =>
         \A i \in Jobs : st[i] = "done" /\ ObjHas(Val(persisted), getFileName(files[i]))

\* C7 witness: process() has rejected because of a failed file although
\* another file of the batch had been digested, and nothing was written
C7_Witness ==
  /\ IsDigestMode
  /\ pc = "rejected"
  /\ firstFailed # 0
  /\ \E i \in Jobs : st[i] = "done"
  /\ mapping # EmptyObject
  /\ persisted = None

\* C8 (as claimed): once the computation of one file has failed, no job that
\* is still waiting in the limiter's queue is started afterwards.
C8_NoStartAfterFailure ==
  [][(IsDigestMode /\ firstFailed # 0) =>
       \A i \in Jobs : st[i] = "queued" => st'[i] = "queued"]_vars

\* C8 (amended): once the computation of one file has failed the batch is
\* lost as a whole: whatever the jobs still queued or running do afterwards
\* (the limiter does start them), process() never resolves and nothing is
\* returned or written.
C8_FailureDiscardsLaterResults ==
  [][(IsDigestMode /\ firstFailed # 0) =>
       /\ pc' # "resolved"
       /\ returned' = returned
       /\ persisted' = persisted]_vars

\* C8 witness: with one job at a time the first file failed, process()
\* rejected, and a later file was still started and digested
C8_Witness ==
  /\ IsDigestMode
  /\ maxConcurrent = 1
  /\ firstFailed = 1
  /\ pc = "rejected"
  /\ \E j \in Jobs : j > 1 /\ st[j] = "done"
  /\ returned = None
  /\ persisted = None

\* C1 -- at every moment of a hash, CID or upload batch the number of file
\* jobs executing is at most the configured maxConcurrent.
C1_ConcurrencyBound == Cardinality(Running) <= maxConcurrent

\* the limit is reached while a job still waits in the limiter's queue
C1_Witness ==
  /\ mode = "upload"
  /\ maxConcurrent = 2
  /\ Cardinality(Running) = maxConcurrent
  /\ queue # <<>>

C3_UploadFailureIsolated ==
  /\ \A i \in Jobs :
       /\ pinOutcome[i] = "rejected" =>
            /\ results[i] # None
            /\ ~Val(results[i]).success
            /\ Val(results[i]).error \notin {"", Undefined}
       /\ (results[i] # None /\ ~Val(results[i]).success) => pinOutcome[i] = "rejected"
  /\ pc = "rejected" => Val(error).kind = "save"
  /\ (mode = "upload" /\ pc = "resolved") =>
       /\ Len(Val(returned)) = Len(files)
       /\ \A i \in Jobs :
            /\ Val(returned)[i].fileName = getFileName(files[i])
            /\ pinOutcome[i] # "rejected" => Val(returned)[i].success

\* one job at a time: a pin call fails, a later file is uploaded all the
\* same and process() resolves
C3_Witness ==
  /\ mode = "upload"
  /\ maxConcurrent = 1
  /\ pc = "resolved"
  /\ \E i, j \in Jobs :
       /\ i < j
       /\ pinOutcome[i] = "rejected"
       /\ ~Val(returned)[i].success
       /\ pinOutcome[j] = "resolved"
       /\ Val(returned)[j].success

\* C4 -- after an upload whose persistence step completes, the persisted
\* mapping has the entry fileName -> cid of every result with success = true
\* and no entry under the fileName of a result with success = false.
C4_PersistedExactlySuccessful ==
  (mode = "upload" /\ pc = "resolved" /\ files # <<>>) =>
    \A i \in Jobs :
      LET r == Val(returned)[i]
      IN  IF r.success
            THEN ObjHas(Val(persisted), r.fileName) /\ ObjGet(Val(persisted), r.fileName) = r.cid
            ELSE ~ObjHas(Val(persisted), r.fileName)

\* C10 -- a pin call for a file is issued only when its job is started by
\* the limiter, before the file has any result, and never a second one: at
\* most one pin call per input path, no retry of a failed file and no
\* re-upload of a file that has a result.
C10_AtMostOnePinCall ==
  [][\A i \in Jobs :
       /\ pinCalls'[i] <= 1
       /\ pinCalls'[i] # pinCalls[i] =>
            (st[i] = "queued" /\ results[i] = None /\ pinOutcome[i] = "none")]_vars

\* the batch is over, a file failed and its single pin call was not repeated
C10_Witness ==
  /\ mode = "upload"
  /\ pc = "resolved"
  /\ \E i \in Jobs :
       /\ pinOutcome[i] = "rejected"
       /\ ~Val(returned)[i].success
       /\ pinCalls[i] = 1

RECURSIVE TotalRecords(_)
TotalRecords(pages) ==
  IF pages = <<>> THEN 0 ELSE RowCount(Head(pages)) + TotalRecords(Tail(pages))

RECURSIVE SumSeq(_)
SumSeq(ns) == IF ns = <<>> THEN 0 ELSE Head(ns) + SumSeq(Tail(ns))

\* the pages pushed are the rows 1 .. total, each once and in order
AllRowsOnce(pages, total) ==
  IF pages = <<>> THEN total = 0
  ELSE /\ pages[1].first = 1
       /\ \A k \in 1..(Len(pages) - 1) : pages[k + 1].first = pages[k].last + 1
       /\ pages[Len(pages)].last = total

\* C9 -- when collectPins returns, the responses were n full pages followed
\* by one page of fewer than pageLimit rows, exactly n + 1 requests were
\* issued and the rows of all n + 1 pages are aggregated; pages of 1000, 1000
\* and 37 rows give 3 requests and 2037 records.
C9_PaginationUntilShortPage ==
  dl = "returned" =>
    LET n == Len(pageSizes) - 1
    IN  /\ n >= 0
        /\ \A k \in 1..n : pageSizes[k] = pageLimit
        /\ pageSizes[n + 1] < pageLimit
        /\ requests = n + 1
        /\ TotalRecords(pins) = SumSeq(pageSizes)
        /\ AllRowsOnce(pins, totalPins)
        /\ pageSizes = <<1000, 1000, 37>> => (requests = 3 /\ TotalRecords(pins) = 2037)

\* 2037 pins: pages of 1000, 1000 and 37 rows
C9_Witness ==
  /\ dl = "returned"
  /\ pageSizes = <<1000, 1000, 37>>
  /\ requests = 3
  /\ TotalRecords(pins) = 2037

\* the state of a file of an upload batch, read off its job and its result:
\* SKIPPED is a successful result without a pin call, UPLOADED a successful
\* result of a pin call, FAILED a result with success = false
FileState(job, result, calls) ==
  IF result # None
    THEN IF ~Val(result).success THEN "FAILED"
         ELSE IF calls = 0 THEN "SKIPPED" ELSE "UPLOADED"
    ELSE IF job = "uploading" THEN "UPLOADING" ELSE "PENDING"

TerminalStates == {"SKIPPED", "UPLOADED", "FAILED"}

FileTransitions ==
  {<<"PENDING", "SKIPPED">>, <<"PENDING", "UPLOADING">>,
   <<"UPLOADING", "UPLOADED">>, <<"UPLOADING", "FAILED">>}

C12_StartsSpacedByMinTime ==
  /\ \A k \in 1..(Len(startTimes) - 1) : startTimes[k + 1] - startTimes[k] >= minTime
  /\ (maxConcurrent = 1 /\ minTime = 3000) =>
       /\ Cardinality(Running) <= 1
       /\ \A k \in 1..(Len(startTimes) - 1) : startTimes[k + 1] - startTimes[k] >= 3000

\* the default upload limiter has started three jobs, 3000 ms apart
C12_Witness ==
  /\ mode = "upload"
  /\ maxConcurrent = 1
  /\ minTime = 3000
  /\ startTimes = <<0, 3000, 6000>>

\* the digests of a mapping taken in ascending natural order of its keys
RECURSIVE JoinDigests(_, _)
JoinDigests(keys, obj) ==
  IF keys = <<>> THEN <<>> ELSE ObjGet(obj, Head(keys)) \o JoinDigests(Tail(keys), obj)

JoinValuesSorted(obj) == JoinDigests(SortKeysNatural(ObjKeys(obj)), obj)

\* C13 (as claimed) -- processWithFinalHash over a permutation of the same
\* file list returns the same aggregate hash, and the aggregate is the hash
\* of the per-file digests joined in sorted-key order.
C13_AggregateIndependentOfOrder ==
  /\ (finalPc = "resolved" /\ run = 2) => finalHash = firstFinalHash
  /\ finalPc = "resolved" =>
       finalHash = Some(Digest("hash", JoinValuesSorted(Val(returned))))

\* C14 -- when file discovery returns no file (process() was called with
\* options that pass validateOptions and the folder holds nothing), the hash,
\* CID and upload processors schedule and start no job on the limiter, issue
\* no pin call, do not reject, and what process() returns is empty ({} or []).
C14_EmptyFolderReturnsEmpty ==
  (mode \in {"hash", "cid", "upload"} /\ OptionsValid /\ files = <<>>) =>
    /\ queue = <<>>
    /\ startTimes = <<>>
    /\ \A i \in DOMAIN pinCalls : pinCalls[i] = 0
    /\ pc \in {"start", "resolved"}
    /\ error = None
    /\ pc = "resolved" => returned = Some(<<>>)

\* the hash processor has returned {} for an empty folder
C14_Witness ==
  /\ mode = "hash"
  /\ files = <<>>
  /\ pc = "resolved"
  /\ returned = Some(EmptyObject)

\* the remote holds at least one pin with a name
HasNamedPin == \E r \in 1..totalPins : ~IsNameless(PinName(r))

\* a run of the download command with both credentials, a valid status
\* filter and an output path
ValidCommandRun ==
  /\ invocation.entry = "command"
  /\ invocation.credentials
  /\ commandStatus(invocation) \in {"all", "pinned", "unpinned"}
  /\ invocation.output # None
  /\ isNonEmptyString(Val(invocation.output))

\* C15 (as claimed) -- a run of the download command with both credentials,
\* a valid status filter, an output path and a remote holding at least one
\* named pin does not end with an error before it calls the list-pins API,
\* and when it has finished the name -> CID mapping reconstructed from the
\* remote is persisted at the output path.
C15_DownloadCommandPersistsMapping ==
  (ValidCommandRun /\ HasNamedPin) =>
    /\ (pc = "rejected" => requests >= 1)
    /\ (pc = "resolved" =>
          /\ requests >= 1
          /\ persisted = Some(MapRows(EmptyObject, 1, totalPins)))

\* C16 (as claimed) -- a folder upload issues at most one upload request;
\* when process() has returned, the result is success = true with the remote
\* CID, and that CID is written at the output path, if and only if the
\* request succeeded; otherwise the result is success = false with cid ''
\* and nothing is written.
C16_FolderUploadAtomic ==
  mode = "folder" =>
    /\ posts <= 1
    /\ pc = "resolved" =>
         IF postOutcome = "resolved"
           THEN /\ Val(returned).success
                /\ Val(returned).cid = FolderCid
                /\ persisted = Some(FolderCid)
           ELSE /\ ~Val(returned).success
                /\ Val(returned).cid = ""
                /\ persisted = None

\* C17 -- when the existing-CID cache file is absent or cannot be read or
\* parsed, the upload batch runs with an empty cache: no file is treated as
\* a cache hit, every file that has a result had its one pin call, and
\* process() rejects for no other reason than a failing save of the output.
C17_UnreadableCacheIsEmpty ==
  (mode = "upload" /\ cacheFile = None) =>
    /\ existingCIDs = EmptyObject
    /\ \A i \in Jobs :
         /\ st[i] # "hit"
         /\ results[i] # None => pinCalls[i] = 1
    /\ pc = "rejected" => Val(error).kind = "save"

\* without a readable cache a batch was uploaded file by file and returned
C17_Witness ==
  /\ mode = "upload"
  /\ cacheFile = None
  /\ pc = "resolved"
  /\ \E i \in Jobs : getFileName(files[i]) = PathF1 /\ pinCalls[i] = 1
  /\ \A i \in Jobs : results[i] # None /\ pinCalls[i] = 1

\* the cache is read once, before any task starts
CacheReadOnceFirst ==
  /\ cacheReads = (IF pc = "start" THEN 0 ELSE 1)
  /\ \A i \in Jobs : st[i] # "queued" => cacheReads = 1

\* a file pinned by an earlier task of the batch is not a cache hit later on
NoHitOnBatchUpload ==
  \A i \in Jobs : \A j \in Jobs :
    (i # j /\ getFileName(files[i]) = getFileName(files[j]) /\ pinCalls[i] = 1)
      => st[j] # "hit"

\* C18 -- the existing-CID cache is loaded exactly once, before any per-file
\* task of the upload batch starts, and no step of the batch changes the
\* loaded cache or the cache file: a file uploaded during the batch is not a
\* cache hit for any later task of the same batch.
C18_CacheFrozenDuringBatch ==
  /\ [](mode = "upload" => CacheReadOnceFirst /\ NoHitOnBatchUpload)
  /\ [][mode = "upload" =>
          /\ pc # "start" => existingCIDs' = existingCIDs
          /\ cacheFile' = cacheFile]_vars

\* C18, amended -- the cache is loaded exactly once, before any task starts,
\* and no step changes the loaded cache, so that a file uploaded during the
\* batch is not a cache hit for a later task; the cache file is left alone
\* as long as a task is pending, and is changed only by the final save of
\* the output mapping when the output path is the cache file's own path.
C18_CacheFrozenUntilFinalSave ==
  /\ [](mode = "upload" => CacheReadOnceFirst /\ NoHitOnBatchUpload)
  /\ [][mode = "upload" =>
          /\ pc # "start" => existingCIDs' = existingCIDs
          /\ cacheFile' # cacheFile =>
               /\ outputPath = CachePath
               /\ AllJobsResolved
               /\ pc = "awaiting" /\ pc' = "resolved"
               /\ cacheFile' = persisted']_vars

\* f1 was not in the cache and was pinned; the later d/f1, of the same name,
\* was pinned too; the batch returned with the cache as it was loaded
C18_Witness ==
  /\ mode = "upload"
  /\ pc = "resolved"
  /\ cacheReads = 1
  /\ \E i \in Jobs : \E j \in Jobs :
       /\ i < j
       /\ getFileName(files[i]) = getFileName(files[j])
       /\ pinCalls[i] = 1 /\ pinOutcome[i] = "resolved"
       /\ pinCalls[j] = 1
  /\ existingCIDs = (IF outputPath = CachePath THEN EmptyObject ELSE loadExistingCIDs)

\* a result with success = false: no CID and an error message
FailureShape(result) ==
  /\ ~result.success
  /\ result.cid = ""
  /\ result.error \notin {"", Undefined}

C20_OutputSavedOnceAtEnd ==
  (mode = "upload" /\ files # <<>>) =>
    /\ outputSaves <= 1
    /\ outputSaves = 1 => \A i \in Jobs : results[i] # None /\ st[i] = "done"
    /\ pc \in {"start", "awaiting"} => outputSaves = 0 /\ persisted = None
    /\ pc \in {"resolved", "rejected"} => outputSaves = 1
    /\ pc = "resolved" => persisted = Some(successfulUploads(Val(returned)))

\* every file of the batch failed and the empty mapping was written, once
C20_Witness ==
  /\ mode = "upload"
  /\ files # <<>>
  /\ pc = "resolved"
  /\ \A i \in Jobs : pinOutcome[i] = "rejected"
  /\ outputSaves = 1
  /\ persisted = Some(EmptyObject)

\* withRetry re-invokes the operation only after a retryable failure of an
\* attempt that was not the last, never after a success
ReinvokedOnlyAfterRetryable ==
  invocations' > invocations =>
    /\ invocations' = invocations + 1
    /\ retryPc # "returned"
    /\ invocations > 0 =>
         /\ lastError # None
         /\ Val(lastError).isRetryable
         /\ invocations < maxRetries

\* C21 (as claimed) -- withRetry invokes the operation at most maxRetries
\* times; a success is returned with no further invocation; the operation is
\* re-invoked only after a retryable failure and with fewer than maxRetries
\* attempts made; otherwise withRetry throws the normalized error of the
\* last attempt.
C21_RetryBoundedThrowsLast ==
  /\ [](mode = "retry" =>
          /\ invocations <= maxRetries
          /\ retryPc = "thrown" =>
               /\ invocations >= 1
               /\ lastError # None
               /\ retryThrown = lastError)
  /\ [][mode = "retry" => ReinvokedOnlyAfterRetryable]_vars

\* C21, amended -- withRetry invokes the operation at most maxRetries times;
\* a success is returned with no further invocation; the operation is
\* re-invoked only after a retryable failure and with fewer than maxRetries
\* attempts made; otherwise withRetry throws the normalized error of the
\* last attempt, which was not retryable or was attempt maxRetries.  With
\* maxRetries below 1 the operation is never invoked and withRetry throws a
\* SystemError (UNKNOWN_ERROR).
C21_RetryBounded ==
  /\ [](mode = "retry" =>
          /\ invocations <= maxRetries
          /\ retryPc = "thrown" =>
               IF maxRetries < 1
                 THEN /\ invocations = 0
                      /\ retryThrown = Some(SystemError("Operation failed without captured error"))
                 ELSE /\ invocations >= 1
                      /\ lastError # None
                      /\ retryThrown = lastError
                      /\ ~Val(lastError).isRetryable \/ invocations = maxRetries)
  /\ [][mode = "retry" => ReinvokedOnlyAfterRetryable]_vars

\* with the default three attempts: two retryable failures, then a failure
\* that is not retryable is thrown as the SystemError it was normalized to
C21_Witness ==
  /\ mode = "retry"
  /\ maxRetries = DefaultMaxRetries
  /\ invocations = 3
  /\ retryPc = "thrown"
  /\ retryThrown = Some(SystemError("boom"))

\* C22 -- in withRetry the k-th wait lasts backoffMs * 2^(k-1) (1000 ms then
\* 2000 ms with the defaults); a wait follows a failed attempt only when the
\* failure was retryable and the attempt was not the last one: attempt k
\* begins after k - 1 waits and no wait follows the final attempt.
C22_BackoffDoubles ==
  mode = "retry" =>
    /\ \A k \in DOMAIN waits : waits[k] = backoffMs * 2 ^ (k - 1)
    /\ Len(waits) = (IF retryPc = "sleeping" THEN attempt ELSE attempt - 1)
    /\ retryPc = "sleeping" => (Val(lastError).isRetryable /\ attempt < maxRetries)
    /\ retryPc \in {"thrown", "returned"} => Len(waits) = invocations - (IF invocations = 0 THEN 0 ELSE 1)
    /\ (maxRetries = DefaultMaxRetries /\ backoffMs = DefaultBackoffMs) =>
         waits \in {<<>>, <<1000>>, <<1000, 2000>>}

\* with the defaults: 1000 ms and 2000 ms were waited, the third attempt
\* failed with a retryable error and was thrown without another wait
C22_Witness ==
  /\ mode = "retry"
  /\ maxRetries = DefaultMaxRetries
  /\ backoffMs = DefaultBackoffMs
  /\ waits = <<1000, 2000>>
  /\ retryPc = "thrown"
  /\ Val(retryThrown).isRetryable

\* a classified application error: one of the BaseApplicationError classes,
\* which carry a code and a severity
IsClassified(thrown) == thrown.type \in AppErrorClasses

\* C23 (as claimed) -- whatever process() of a processor rejects with is a
\* classified application error with a code and a severity; no plain Error
\* reaches the command layer.
C23_RejectionsAreClassified ==
  ProcessRejected => IsClassified(processRejection)

\* C24 -- an upload-files command whose batch runs to completion exits with
\* code 0 however many files failed; it exits with code 1 exactly when
\* execute() caught an error: a failed validation or missing credentials
\* before process() was called, or process() rejecting (file discovery,
\* persistence).
C24_ExitCodes ==
  (command.name = "upload-files" /\ cmdPc = "exited") =>
    /\ exitCode \in {Some(0), Some(1)}
    /\ pc = "resolved" => exitCode = Some(0)
    /\ exitCode = Some(0) => (pc = "resolved" /\ returned # None)
    /\ exitCode = Some(1) <=>
         \/ (pc = "start" /\ commandStartError(command) # None /\ cacheReads = 0)
         \/ (pc = "rejected" /\ Val(error).kind \in {"readFiles", "save"})

\* every file of the batch failed and the command exited with code 0
C24_Witness ==
  /\ command.name = "upload-files"
  /\ cmdPc = "exited"
  /\ exitCode = Some(0)
  /\ Len(files) >= 2
  /\ \A i \in Jobs : ~Val(returned)[i].success

\* the rows collected, as <<page, row>> positions, and their page-then-row order
CollectedRows ==
  {pos \in (DOMAIN pins) \X (1..totalPins) :
     pins[pos[1]].first <= pos[2] /\ pos[2] <= pins[pos[1]].last}

RowPrecedes(a, b) == a[1] < b[1] \/ (a[1] = b[1] /\ a[2] < b[2])

\* the last collected row carrying the name
LastRowNamed(name) ==
  CHOOSE a \in CollectedRows :
    /\ PinName(a[2]) = Some(name)
    /\ \A b \in CollectedRows : PinName(b[2]) = Some(name) => ~RowPrecedes(a, b)

C26_RequestFilters ==
  mode = "download" =>
    /\ Len(filters) = requests
    /\ \A k \in DOMAIN filters :
         /\ filters[k].status = pinStatus
         /\ filters[k].pageLimit = pageLimit
         /\ filters[k].pageOffset = SumSeq(SubSeq(pageSizes, 1, k - 1))

\* a third request was sent, for unpinned files, after two full pages
C26_Witness ==
  /\ mode = "download"
  /\ pinStatus = "unpinned"
  /\ Len(filters) = 3
  /\ filters[1].pageOffset = 0
  /\ filters[3].pageOffset = 2 * pageLimit
  /\ dl = "returned"

\* C27 (as claimed): the hash command writes the aggregate hash file only
\* when --final-output is given on the command line; a run without it
\* writes the name-to-hash mapping and nothing else.
C27_FinalHashOnlyOnRequest ==
  (command.name = "hash" /\ cmdPc = "exited") =>
    /\ finalPersisted # None => isDefined(command.finalOutput)
    /\ (exitCode = Some(0) /\ ~isDefined(command.finalOutput)) =>
         (finalPersisted = None /\ (files # <<>> => persisted # None))

\* the options process() was called with, when they are followed
CalledWithOptions == invocation.entry \in {"processor", "folder"}

\* nothing has been discovered, read, scheduled, requested or written
NothingDone ==
  /\ queue = <<>>
  /\ \A i \in DOMAIN st : st[i] = "queued"
  /\ mapping = EmptyObject
  /\ cacheReads = 0
  /\ existingCIDs = EmptyObject
  /\ \A i \in DOMAIN pinCalls : pinCalls[i] = 0
  /\ \A i \in DOMAIN results : results[i] = None
  /\ tracker = NoTracker
  /\ settleOrder = <<>>
  /\ requests = 0
  /\ filters = <<>>
  /\ pins = <<>>
  /\ posts = 0
  /\ outputSaves = 0
  /\ persisted = None
  /\ finalPersisted = None
  /\ returned = None

\* C28: process() of every processor, called with a folder path or an output
\* path that is empty or blank, throws 'Folder path is required' or 'Output
\* path is required', and no file discovery, cache read, limiter scheduling,
\* remote call or file write has taken place
C28_InvalidOptionsThrowFirst ==
  (CalledWithOptions /\ (~isNonEmptyString(invocation.folderPath)
                          \/ ~isNonEmptyString(invocation.outputPath))) =>
    /\ pc \in {"start", "rejected"}
    /\ pc = "rejected" =>
         /\ error = (IF ~isNonEmptyString(invocation.folderPath)
                       THEN Thrown("Folder path is required")
                       ELSE Thrown("Output path is required"))
    /\ NothingDone

\* the upload processor, called with a blank output path over a folder of
\* two files and a cache file, has thrown
C28_Witness ==
  /\ mode = "upload"
  /\ CalledWithOptions
  /\ invocation.folderPath = <<"f">>
  /\ invocation.outputPath = <<" ">>
  /\ Len(files) = 2
  /\ cacheFile # None
  /\ pc = "rejected"
  /\ error = Thrown("Output path is required")

\* the base names of the input paths
BaseNames == {getFileName(files[i]) : i \in Jobs}

\* C29: when every computation has succeeded, the keys of the mapping
\* processFiles returns are exactly the base names of the input paths, each
\* once, so that its size is the number of distinct base names, and the
\* value under a base name is the result of one of the paths that have it;
\* the base name is what follows the last '/' or '\' of the path
C29_KeysAreBaseNames ==
  (IsDigestMode /\ pc \in {"awaiting", "resolved"} /\ AllJobsResolved) =>
    LET m == ProcessFilesResult
    IN  /\ {m[i].k : i \in DOMAIN m} = BaseNames
        /\ Len(m) = Cardinality(BaseNames)
        /\ \A i \in DOMAIN m :
             \E j \in Jobs : /\ getFileName(files[j]) = m[i].k
                             /\ m[i].v = Digest(mode, FileContent(files[j]))
        /\ \A j \in Jobs :
             /\ getFileName(<<"d", "\\">> \o files[j]) = getFileName(files[j])
             /\ getFileName(<<"d", "/">> \o files[j]) = getFileName(files[j])

\* three paths, two of them with the base name f1, gave a mapping of two keys
C29_Witness ==
  /\ IsDigestMode
  /\ pc = "resolved"
  /\ Len(files) = 3
  /\ \E i, j \in Jobs : files[i] = PathF1 /\ files[j] = PathDF1
  /\ Len(Val(returned)) = 2
  /\ Val(returned) = ProcessFilesResult

\* the files whose task has settled, and those it settled with a failure
Settled == {i \in Jobs : results[i] # None}

SettledFailed == {i \in Settled : ~Val(results[i]).success}

\* C30: the batch tracker of an upload has recorded each settled file once,
\* as a success or as an error: processed is the number of settled files,
\* the error count the number of them that failed, so that processed =
\* succeeded + failed <= total at every point; when process() resolves,
\* processed is the number of files and the error count the number of results
\* with success = false
C30_TrackerCounts ==
  mode = "upload" =>
    /\ tracker.processed = Cardinality(Settled)
    /\ tracker.errors = Cardinality(SettledFailed)
    /\ tracker.processed = Cardinality(Settled \ SettledFailed) + tracker.errors
    /\ tracker.processed <= Len(files)
    /\ pc = "resolved" =>
         /\ tracker.processed = Len(files)
         /\ Len(Val(returned)) = Len(files)
         /\ tracker.errors =
              Cardinality({i \in DOMAIN Val(returned) : ~Val(returned)[i].success})

\* an upload of three files resolved with two successes and one failure
C30_Witness ==
  /\ mode = "upload"
  /\ pc = "resolved"
  /\ Len(files) = 3
  /\ tracker.processed = 3
  /\ tracker.errors = 1
  /\ Cardinality(SettledFailed) = 1

\* the index of the last '/' or '\' of a path, 0 when it has none
LastSlash(p) ==
  LET S == {i \in DOMAIN p : p[i] = "/" \/ p[i] = "\\"}
  IN  IF S = {} THEN 0 ELSE CHOOSE i \in S : \A j \in S : j <= i

AfterLastSlash(p) == SubSeq(p, LastSlash(p) + 1, Len(p))

HasLineTerminator(p) == \E i \in DOMAIN p : p[i] = "\n"

ProgressStep(n) == IF n < 10 THEN 1 ELSE n \div 10

\* C32: over a batch of N items, the progress lines logged so far are those
\* of the processed counts (successes plus failures) 1 .. processed that are
\* multiples of max(1, floor(N / 10)), one line each, in ascending order
C32_ProgressAtMultiples ==
  mode \in {"tracker", "upload"} =>
    LET step == ProgressStep(tracker.total)
        due  == {k \in 1..tracker.processed : k % step = 0}
    IN  /\ {tracker.progress[i] : i \in DOMAIN tracker.progress} = due
        /\ Len(tracker.progress) = Cardinality(due)
        /\ \A i, j \in DOMAIN tracker.progress :
             i < j => tracker.progress[i] < tracker.progress[j]

\* a batch of 25 items, 7 of them processed and 3 failed: lines were logged
\* at 2, 4 and 6
C32_Witness ==
  /\ mode = "tracker"
  /\ tracker.total = 25
  /\ tracker.processed = 7
  /\ tracker.errors = 3
  /\ tracker.progress = <<2, 4, 6>>

\* the result the task of the i-th discovered path settles with, from what
\* happened to that path: its base name, and the cached CID, the CID of its
\* content, or the failure of its pin call
IsResultOfPath(r, i) ==
  /\ r.fileName = getFileName(files[i])
  /\ CASE pinOutcome[i] = "resolved" -> r.success /\ r.cid = IpfsHashOf(FileContent(files[i]))
       [] pinOutcome[i] = "rejected" -> ~r.success /\ r.cid = ""
       [] OTHER -> r.success /\ r.cid = ObjGet(existingCIDs, getFileName(files[i]))

\* C33: the array an upload batch returns has one result per discovered file
\* path, the i-th result being that of the i-th path, in whatever order the
\* tasks completed
C33_ResultsInInputOrder ==
  (mode = "upload" /\ pc = "resolved") =>
    /\ Len(Val(returned)) = Len(files)
    /\ \A i \in DOMAIN files : IsResultOfPath(Val(returned)[i], i)

\* a batch of f2, f1 with f1 cached and f2 failing has resolved, the task
\* of f1 having settled before the task of f2
C33_Witness ==
  /\ mode = "upload"
  /\ pc = "resolved"
  /\ files = <<PathF2, PathF1>>
  /\ settleOrder = <<2, 1>>
  /\ ~Val(returned)[1].success
  /\ Val(returned)[2] = UploadSucceeded(PathF1, "QmOld1")

\* the input positions whose path has the given base name
PathsNamed(name) == {i \in DOMAIN files : getFileName(files[i]) = name}

\* the properties of an object under one key
EntriesFor(obj, key) == {n \in DOMAIN obj : obj[n].k = key}

Started == {i \in Jobs : st[i] # "queued"}

\* C35: the dedup check of an upload runs inside the limiter's task: a file
\* found in the cache is started by the limiter like any other (it has a start
\* time, counts among the executing jobs up to maxConcurrent, and is at least
\* minTime after the start before it), and with maxConcurrent = 1 the task
\* of the k-th file, cached or not, starts no earlier than (k - 1) * minTime
\* after the task of the first file
C35_CacheHitsArePaced ==
  mode = "upload" =>
    /\ Started = 1..Len(startTimes)
    /\ Cardinality(Running) <= maxConcurrent
    /\ \A i \in Started :
         (i > 1 /\ IsCacheHit(getFileName(files[i]), existingCIDs)) =>
           startTimes[i] >= startTimes[i - 1] + minTime
    /\ maxConcurrent = 1 =>
         \A k \in DOMAIN startTimes : startTimes[k] >= startTimes[1] + (k - 1) * minTime

\* f1 and f2 are cached, f10 is not: under the default limiter the three
\* tasks started 3000 ms apart, and only f10 was sent to the remote
C35_Witness ==
  /\ mode = "upload"
  /\ maxConcurrent = 1
  /\ minTime = 3000
  /\ files = <<PathF1, PathF2, PathF10>>
  /\ IsCacheHit(PathF2, existingCIDs)
  /\ startTimes = <<0, 3000, 6000>>
  /\ pinCalls = <<0, 0, 1>>

\* the steps of one processFiles task, in the order of the code
TaskSteps == <<"started", "read", "computed", "written", "completed">>

\* position of an event in a job's log, 0 when it did not happen
EventAt(log, e) ==
  IF \E n \in DOMAIN log : log[n] = e THEN CHOOSE n \in DOMAIN log : log[n] = e ELSE 0

Happened(i, e) == EventAt(events[i], e) # 0

TaskFailed(i) == Happened(i, "read threw") \/ Happened(i, "compute threw")

\* C36: in processFiles each file's task goes through started hook, file
\* read, computation, mapping write, completed hook in that order, each at
\* most once and none without the one before it; a file still waiting in the
\* limiter has not been read; a task whose read or computation threw wrote
\* no mapping entry and fired no completed hook, and the mapping holds a key
\* only if a task of that name wrote it
C36_TaskEventOrder ==
  IsDigestMode =>
    /\ \A i \in Jobs :
         /\ \A a, b \in DOMAIN events[i] : a # b => events[i][a] # events[i][b]
         /\ \A s \in 2..Len(TaskSteps) :
              Happened(i, TaskSteps[s]) =>
                /\ Happened(i, TaskSteps[s - 1])
                /\ EventAt(events[i], TaskSteps[s - 1]) < EventAt(events[i], TaskSteps[s])
         /\ st[i] = "queued" => events[i] = <<>>
         /\ TaskFailed(i) => ~Happened(i, "written") /\ ~Happened(i, "completed")
         /\ Happened(i, "read threw") => ~Happened(i, "read") /\ Happened(i, "started")
         /\ Happened(i, "compute threw") => Happened(i, "read") /\ ~Happened(i, "computed")
         /\ st[i] = "done" => Happened(i, "completed")
         /\ st[i] = "failed" => TaskFailed(i)
         /\ Happened(i, "written") => ObjHas(mapping, getFileName(files[i]))
    /\ \A n \in DOMAIN mapping :
         \E i \in Jobs : getFileName(files[i]) = mapping[n].k /\ Happened(i, "written")

\* of three files the first went through its five steps, the read of the
\* second threw, the computation of the third threw: one key was written
C36_Witness ==
  /\ IsDigestMode
  /\ Len(files) = 3
  /\ events[1] = TaskSteps
  /\ events[2] = <<"started", "read threw">>
  /\ events[3] = <<"started", "read", "compute threw">>
  /\ Len(mapping) = 1

\* the remote holds no pin, or no pin that carries a name
NoNamedPin == \A r \in 1..totalPins : IsNameless(PinName(r))

\* C37: when the reconciliation yields an empty mapping (no pin, or no pin
\* with a name) DownloadProcessor.process returns {} and does not write the
\* output file: the mapping an earlier download saved there is still there
C37_EmptyDownloadKeepsFile ==
  (mode = "download" /\ pc = "resolved" /\ NoNamedPin) =>
    /\ returned = Some(EmptyObject)
    /\ persisted = Some(PreviousDownload)

\* two pins, neither with a name, were listed: process() returned {} and the
\* earlier mapping is still at the output path
C37_Witness ==
  /\ mode = "download"
  /\ pc = "resolved"
  /\ totalPins = 2
  /\ NoNamedPin
  /\ requests >= 1
  /\ returned = Some(EmptyObject)
  /\ persisted = Some(PreviousDownload)

\* C38: when the folder has no file, processWithFinalHash writes no mapping
\* file, and still computes the hash strategy's digest of the empty string,
\* saves it at the final output path and returns it
C38_EmptyFolderFinalHash ==
  (mode = "hash" /\ files = <<>> /\ finalPc = "resolved") =>
    /\ returned = Some(EmptyObject)
    /\ persisted = None
    /\ finalHash = Some(Digest("hash", <<>>))
    /\ finalPersisted = finalHash

\* processWithFinalHash resolved over an empty folder: the final hash file
\* holds the digest of the empty string and there is no mapping file
C38_Witness ==
  /\ mode = "hash"
  /\ files = <<>>
  /\ pc = "resolved"
  /\ finalPc = "resolved"
  /\ persisted = None
  /\ finalPersisted = Some(Digest("hash", <<>>))

====
